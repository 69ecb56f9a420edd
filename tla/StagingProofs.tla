---------------------------- MODULE StagingProofs ----------------------------
(***************************************************************************)
(* Proofs about Staging, for every set of tasks, every bound and every     *)
(* fault.                                                                  *)
(*                                                                         *)
(* The first part is about publication: what reaches the owner's main, and *)
(* the refinement.  The second is about what is staged: that work is       *)
(* composed once, stays where the owner was told it is, is shown while it  *)
(* waits, and is completed only as it was accepted; but a failed write can *)
(* leave staging at a commit nobody was told of (StagingIsAlwaysExplained).*)
(***************************************************************************)
EXTENDS StagingProperties, SequenceTheorems, TLAPS

-------------------------------------------------------------------------------
(* Ancestry of commits *)

\* One sequence is a prefix of another iff it is no longer and agrees with it where it is
\* defined.
LEMMA PrefixByElements ==
  ASSUME NEW S, NEW s \in Seq(S), NEW t \in Seq(S)
  PROVE  IsPrefix(s, t) <=> Len(s) <= Len(t) /\ \A i \in 1..Len(s) : s[i] = t[i]
<1>1. Len(s) \in Nat /\ Len(t) \in Nat
  BY LenProperties
<1>2. SubSeq(s, 1, Len(s)) = s
  BY SubSeqFull
<1>3. ASSUME Len(s) <= Len(t)
      PROVE  /\ SubSeq(t, 1, Len(s)) \in Seq(S)
             /\ Len(SubSeq(t, 1, Len(s))) = Len(s)
             /\ \A i \in 1..Len(s) : SubSeq(t, 1, Len(s))[i] = t[i]
  <2>1. \A i \in 1..Len(s) : t[i] \in S
    BY <1>1, <1>3, ElementOfSeq
  <2>2. /\ SubSeq(t, 1, Len(s)) \in Seq(S)
        /\ Len(SubSeq(t, 1, Len(s))) = IF 1 <= Len(s) THEN Len(s) - 1 + 1 ELSE 0
        /\ \A i \in 1..(Len(s) - 1 + 1) : SubSeq(t, 1, Len(s))[i] = t[1 + i - 1]
    BY <1>1, <2>1, SubSeqProperties
  <2> QED BY <1>1, <2>2
<1>4. ASSUME Len(s) <= Len(t), \A i \in 1..Len(s) : s[i] = t[i]
      PROVE  SubSeq(t, 1, Len(s)) = s
  BY <1>1, <1>3, <1>4, SeqEqual
<1> QED BY <1>1, <1>2, <1>3, <1>4 DEF IsPrefix

LEMMA PrefixReflexive ==
  ASSUME NEW S, NEW s \in Seq(S)
  PROVE  IsPrefix(s, s)
BY PrefixByElements, LenProperties

LEMMA PrefixTransitive ==
  ASSUME NEW S, NEW s \in Seq(S), NEW t \in Seq(S), NEW u \in Seq(S),
         IsPrefix(s, t), IsPrefix(t, u)
  PROVE  IsPrefix(s, u)
<1>1. Len(s) \in Nat /\ Len(t) \in Nat /\ Len(u) \in Nat
  BY LenProperties
<1>2. Len(s) <= Len(t) /\ \A i \in 1..Len(s) : s[i] = t[i]
  BY PrefixByElements
<1>3. Len(t) <= Len(u) /\ \A i \in 1..Len(t) : t[i] = u[i]
  BY PrefixByElements
<1>4. Len(s) <= Len(u) /\ \A i \in 1..Len(s) : s[i] = u[i]
  BY <1>1, <1>2, <1>3
<1> QED BY <1>4, PrefixByElements

LEMMA PrefixOfAppend ==
  ASSUME NEW S, NEW s \in Seq(S), NEW e \in S
  PROVE  /\ Append(s, e) \in Seq(S)
         /\ IsPrefix(s, Append(s, e))
         /\ Len(Append(s, e)) = Len(s) + 1
         /\ Last(Append(s, e)) = e
<1> DEFINE longer == Append(s, e)
<1>1. /\ Len(s) \in Nat
      /\ longer \in Seq(S)
      /\ Len(longer) = Len(s) + 1
      /\ \A i \in 1..Len(s) : s[i] = longer[i]
      /\ longer[Len(s) + 1] = e
  OBVIOUS
<1> HIDE DEF longer
<1>2. IsPrefix(s, longer)
  BY <1>1, PrefixByElements
<1>3. Last(longer) = e
  BY <1>1 DEF Last
<1> QED BY <1>1, <1>2, <1>3 DEF longer

-------------------------------------------------------------------------------
(* Types *)

\* Approvals are added, never removed: what refers to one goes on referring to it.
Grown == DOMAIN approvals \subseteq DOMAIN approvals'

LEMMA UntouchedParts ==
  ASSUME TypeOK, Grown
  PROVE  /\ UNCHANGED store => TypeStore'
         /\ UNCHANGED git => TypeGit'
         /\ UNCHANGED files => TypeFiles'
         /\ UNCHANGED tick => TypeTick'
         /\ UNCHANGED running => TypeJob'
<1>1. UNCHANGED store => TypeStore'
  BY DEF TypeOK, TypeStore, store
<1>2. UNCHANGED git => TypeGit'
  BY DEF TypeOK, TypeGit, git
<1>3. UNCHANGED files => TypeFiles'
  BY DEF TypeOK, TypeFiles, files, Grown
<1>4. Publication \subseteq Publication' /\ Composition' = Composition
  BY DEF Publication, Composition, Grown
<1>5. UNCHANGED tick => TypeTick'
  BY <1>4 DEF TypeOK, TypeTick, tick
<1>6. UNCHANGED running => TypeJob'
  BY <1>4 DEF TypeOK, TypeJob, running
<1> QED BY <1>1, <1>2, <1>3, <1>5, <1>6

\* Rows are replaced in place.
LEMMA ReplacedRows ==
  ASSUME NEW S, NEW rows \in Seq(S), NEW new, DOMAIN new = DOMAIN rows,
         new = [a \in DOMAIN rows |-> new[a]], \A a \in DOMAIN rows : new[a] \in S
  PROVE  new \in Seq(S) /\ Len(new) = Len(rows)
<1>1. Len(rows) \in Nat /\ DOMAIN rows = 1..Len(rows)
  BY LenProperties
<1>2. new \in [1..Len(rows) -> S]
  BY <1>1
<1>3. new \in Seq(S)
  BY <1>1, <1>2, SeqDef
<1> QED BY <1>1, <1>3, LenProperties

LEMMA TypesInitially == Init => TypeOK
<1> SUFFICES ASSUME Init PROVE TypeOK
  OBVIOUS
<1>1. <<>> \in Commit /\ <<>> \in Seq(ApprovalRow) /\ DOMAIN <<>> = {}
  BY EmptySeq DEF Commit
<1>2. TypeStore
  BY <1>1 DEF Init, TypeStore, TaskRow, ProjectRow
<1>3. TypeGit /\ TypeFiles /\ TypeTick /\ TypeJob
  BY <1>1 DEF Init, TypeGit, TypeFiles, TypeTick, TypeJob
<1> QED BY <1>2, <1>3 DEF TypeOK

\* The step leaves the types right and removes no approval.
TypeStep == TypeOK' /\ Grown

LEMMA Rows ==
  ASSUME TypeOK
  PROVE  /\ \A a \in DOMAIN approvals : approvals[a] \in ApprovalRow
         /\ Len(approvals) \in Nat /\ DOMAIN approvals = 1..Len(approvals)
         /\ \A t \in Tasks : task[t] \in TaskRow
         /\ project \in ProjectRow
<1>1. approvals \in Seq(ApprovalRow)
  BY DEF TypeOK, TypeStore
<1>2. Len(approvals) \in Nat /\ DOMAIN approvals = 1..Len(approvals)
  BY <1>1, LenProperties
<1>3. \A a \in DOMAIN approvals : approvals[a] \in ApprovalRow
  BY <1>1, <1>2, ElementOfSeq
<1> QED BY <1>2, <1>3 DEF TypeOK, TypeStore

\* Rewriting rows of the approvals one for one.
LEMMA ApprovalsRewritten ==
  ASSUME TypeOK, DOMAIN approvals' = DOMAIN approvals,
         approvals' = [a \in DOMAIN approvals |-> approvals'[a]],
         \A a \in DOMAIN approvals : approvals'[a] \in ApprovalRow
  PROVE  approvals' \in Seq(ApprovalRow) /\ Grown
<1>1. approvals \in Seq(ApprovalRow)
  BY DEF TypeOK, TypeStore
<1>2. approvals' \in Seq(ApprovalRow)
  BY <1>1, ReplacedRows
<1> QED BY <1>2 DEF Grown

LEMMA RequestsKeepTypes ==
  ASSUME TypeOK, Requested
  PROVE  TypeStep
<1> USE DEF TypeStep
<1>r. /\ \A a \in DOMAIN approvals : approvals[a] \in ApprovalRow
      /\ \A t \in Tasks : task[t] \in TaskRow
      /\ project \in ProjectRow
  BY Rows
<1>g. task \in [Tasks -> TaskRow] /\ main \in Commit /\ staging \in Commit
  BY DEF TypeOK, TypeStore, TypeGit
<1>1. ASSUME NEW t \in Tasks, AddGoal(t)
      PROVE  TypeStep
  <2>1. Grown /\ UNCHANGED <<approvals, files, tick, running>>
    BY <1>1 DEF AddGoal, Grown
  <2>2. task' \in [Tasks -> TaskRow]
    BY <1>1, <1>r, <1>g DEF AddGoal, TaskRow
  <2>3. project' \in ProjectRow
    BY <1>1, <1>r, <1>g DEF AddGoal, ProjectRow
  <2>4. TypeStore'
    BY <2>1, <2>2, <2>3 DEF TypeOK, TypeStore
  <2>5. TypeGit'
    BY <1>1, <1>g DEF AddGoal, TypeGit, FastForwarded
  <2> QED BY <2>1, <2>4, <2>5, UntouchedParts DEF TypeOK
<1>2. ASSUME GoalRefused
      PROVE  TypeStep
  <2>1. Grown /\ UNCHANGED <<store, files, tick, running>>
    BY <1>2 DEF GoalRefused, Grown, store
  <2>2. TypeGit'
    BY <1>2, <1>g DEF GoalRefused, TypeGit, FastForwarded
  <2> QED BY <2>1, <2>2, UntouchedParts DEF TypeOK
<1>3. ASSUME NEW t \in Tasks, Retry(t)
      PROVE  TypeStep
  <2>1. Grown /\ UNCHANGED <<approvals, project, git, files, tick, running>>
    BY <1>3 DEF Retry, Grown
  <2>2. task' \in [Tasks -> TaskRow]
    BY <1>3, <1>r, <1>g DEF Retry, TaskRow
  <2>3. TypeStore'
    BY <2>1, <2>2 DEF TypeOK, TypeStore
  <2> QED BY <2>1, <2>3, UntouchedParts DEF TypeOK
<1>4. ASSUME NEW a \in DOMAIN approvals, Accept(a) \/ Reject(a)
      PROVE  TypeStep
  <2>1. UNCHANGED <<git, files, tick, running>>
    BY <1>4 DEF Accept, Reject
  <2>2. /\ DOMAIN approvals' = DOMAIN approvals
        /\ approvals' = [b \in DOMAIN approvals |-> approvals'[b]]
        /\ \A b \in DOMAIN approvals : approvals'[b] \in ApprovalRow
    BY <1>4, <1>r DEF Accept, Reject, ApprovalRow
  <2>3. approvals' \in Seq(ApprovalRow) /\ Grown
    BY <2>2, ApprovalsRewritten
  <2>4. task' \in [Tasks -> TaskRow]
    BY <1>4, <1>r DEF Accept, Reject, TaskRow
  <2>5. project' \in ProjectRow
    BY <1>4, <1>r DEF Accept, Reject, ProjectRow, ApprovalRow
  <2>6. TypeStore'
    BY <2>3, <2>4, <2>5 DEF TypeStore
  <2> QED BY <2>1, <2>3, <2>6, UntouchedParts DEF TypeOK
<1>5. ASSUME NEW a \in DOMAIN approvals, RequestIntegration(a)
      PROVE  TypeStep
  <2>1. UNCHANGED <<task, project, git, files, tick, running>>
    BY <1>5 DEF RequestIntegration
  <2>2. /\ DOMAIN approvals' = DOMAIN approvals
        /\ approvals' = [b \in DOMAIN approvals |-> approvals'[b]]
        /\ \A b \in DOMAIN approvals : approvals'[b] \in ApprovalRow
    BY ZenonT(40), <1>5, <1>r DEF RequestIntegration, SourceExpected, ApprovalRow, ProjectRow
  <2>3. approvals' \in Seq(ApprovalRow) /\ Grown
    BY <2>2, ApprovalsRewritten
  <2>4. TypeStore'
    BY <2>1, <2>3 DEF TypeOK, TypeStore
  <2> QED BY <2>1, <2>3, <2>4, UntouchedParts DEF TypeOK
<1>6. ASSUME SetPolicy \/ SetEnabled
      PROVE  TypeStep
  <2>1. Grown /\ UNCHANGED <<task, approvals, git, files, tick, running>>
    BY <1>6 DEF SetPolicy, SetEnabled, Grown
  <2>2. project' \in ProjectRow
    BY <1>6, <1>r DEF SetPolicy, SetEnabled, ProjectRow
  <2>3. TypeStore'
    BY <2>1, <2>2 DEF TypeOK, TypeStore
  <2> QED BY <2>1, <2>3, UntouchedParts DEF TypeOK
<1> QED BY <1>1, <1>2, <1>3, <1>4, <1>5, <1>6 DEF Requested

LEMMA WorldKeepsTypes ==
  ASSUME TypeOK,
         OwnerCommits \/ (\E t \in Tasks : WorkPasses(t) \/ WorkStops(t))
           \/ ControllerCrash \/ ControllerRestarts
  PROVE  TypeStep
<1> USE DEF TypeStep
<1>1. ASSUME OwnerCommits
      PROVE  TypeStep
  <2>1. Grown /\ UNCHANGED <<store, staging, files, tick, running>>
    BY <1>1 DEF OwnerCommits, Grown, store
  <2>2. main \in Seq(Change) /\ Len(main) \in Nat
    BY LenProperties DEF TypeOK, TypeGit, Commit
  <2>3. [by |-> Owner, build |-> 0, token |-> Len(main)] \in Change
    BY <2>2 DEF Change
  <2>4. main' \in Commit
    BY <1>1, <2>2, <2>3, PrefixOfAppend DEF OwnerCommits, Commit
  <2>5. TypeGit'
    BY <2>1, <2>4 DEF TypeOK, TypeGit
  <2> QED BY <2>1, <2>5, UntouchedParts DEF TypeOK
<1>2. ASSUME NEW t \in Tasks, WorkPasses(t)
      PROVE  TypeStep
  <2>1. Grown /\ UNCHANGED <<approvals, project, git, announced, tick, running>>
    BY <1>2 DEF WorkPasses, Grown
  <2>2. task \in [Tasks -> TaskRow] /\ task[t] \in TaskRow
    BY DEF TypeOK, TypeStore
  <2> DEFINE passed == task[t].token + 1
  <2>6. passed \in Nat
    BY <2>2 DEF TaskRow
  <2> DEFINE next(phase) == [task[t] EXCEPT !.state = "integrating", !.token = passed,
                               !.build_attempt = passed, !.phase = phase]
             again == [task[t] EXCEPT !.state = "integrating", !.token = passed]
  <2>7. \/ task' = [task EXCEPT ![t] = next("review")]
        \/ task' = [task EXCEPT ![t] = next("build")]
        \/ task' = [task EXCEPT ![t] = again]
    BY <1>2, <2>2 DEF WorkPasses, TaskRow
  <2>8. {next("review"), next("build"), again} \subseteq TaskRow
    <3> HIDE DEF passed
    <3> QED BY <2>2, <2>6 DEF TaskRow
  <2>3. task' \in [Tasks -> TaskRow]
    <3> HIDE DEF next, again
    <3> QED BY <2>2, <2>7, <2>8
  <2>4. TypeStore'
    BY <2>1, <2>3 DEF TypeOK, TypeStore
  <2>5. TypeFiles'
    BY <1>2, <2>1 DEF WorkPasses, TypeOK, TypeFiles
  <2> QED BY <2>1, <2>4, <2>5, UntouchedParts DEF TypeOK
<1>3. ASSUME NEW t \in Tasks, WorkStops(t)
      PROVE  TypeStep
  <2>1. Grown /\ UNCHANGED <<approvals, project, git, files, tick, running>>
    BY <1>3 DEF WorkStops, Grown
  <2>2. task \in [Tasks -> TaskRow] /\ task[t] \in TaskRow
    BY DEF TypeOK, TypeStore
  <2>3. task' \in [Tasks -> TaskRow]
    BY <1>3, <2>2 DEF WorkStops, TaskRow
  <2>4. TypeStore'
    BY <2>1, <2>3 DEF TypeOK, TypeStore
  <2> QED BY <2>1, <2>4, UntouchedParts DEF TypeOK
<1>4. ASSUME ControllerCrash
      PROVE  TypeStep
  <2>1. Grown /\ UNCHANGED <<store, git, files>>
    BY <1>4 DEF ControllerCrash, Grown, store
  <2>2. TypeTick'
    BY <1>4 DEF ControllerCrash, TypeTick
  <2>3. TypeJob'
    BY <1>4, EmptySeq DEF ControllerCrash, EndsJob, TypeJob, Commit
  <2> QED BY <2>1, <2>2, <2>3, UntouchedParts DEF TypeOK
<1>5. ASSUME ControllerRestarts
      PROVE  TypeStep
  <2>1. Grown /\ UNCHANGED <<store, git, files, offers, running>>
    BY <1>5 DEF ControllerRestarts, Grown, store
  <2>2. Publication \subseteq Publication' /\ Composition' = Composition
    BY <2>1 DEF Publication, Composition, Grown
  <2>3. TypeTick'
    BY <1>5, <2>1, <2>2 DEF ControllerRestarts, TypeOK, TypeTick
  <2> QED BY <2>1, <2>3, UntouchedParts DEF TypeOK
<1> QED BY <1>1, <1>2, <1>3, <1>4, <1>5

LEMMA TickKeepsTypes ==
  ASSUME TypeOK, Tick
  PROVE  TypeStep
<1> USE DEF TypeStep
<1>1. Grown /\ UNCHANGED <<store, git, files>>
  BY DEF Tick, ReadApprovals, ReadTasks, TickEnds, Submit, Grown, store
<1>2. Publication' = Publication /\ Composition' = Composition
  BY <1>1 DEF Publication, Composition, store
<1>3. ASSUME ReadApprovals
      PROVE  TypeStep
  <2>1. offers' \subseteq Publication
    BY <1>3, Rows DEF ReadApprovals, Publication
  <2>2. TypeTick'
    BY <1>2, <1>3, <2>1 DEF ReadApprovals, TypeTick
  <2>3. UNCHANGED running
    BY <1>3 DEF ReadApprovals
  <2> QED BY <1>1, <2>2, <2>3, UntouchedParts DEF TypeOK
<1>4. ASSUME ReadTasks
      PROVE  TypeStep
  <2>1. offers' \subseteq Composition
    BY <1>4, Rows DEF ReadTasks, ToIntegrate, Composition
  <2>2. TypeTick'
    BY <1>2, <1>4, <2>1 DEF ReadTasks, ToIntegrate, TypeTick
  <2>3. UNCHANGED running
    BY <1>4 DEF ReadTasks
  <2> QED BY <1>1, <2>2, <2>3, UntouchedParts DEF TypeOK
<1>5. ASSUME TickEnds
      PROVE  TypeStep
  <2>1. TypeTick' /\ UNCHANGED running
    BY <1>2, <1>5 DEF TickEnds, TypeOK, TypeTick
  <2> QED BY <1>1, <2>1, UntouchedParts DEF TypeOK
<1>6. ASSUME NEW o \in offers, Submit(o)
      PROVE  TypeStep
  <2>1. TypeTick'
    BY <1>2, <1>6 DEF Submit, TypeOK, TypeTick
  <2>2. o \in Composition \cup Publication
    BY DEF TypeOK, TypeTick
  <2>3. TypeJob'
    BY <1>2, <1>6, <2>2 DEF Submit, TypeOK, TypeJob, running
  <2> QED BY <1>1, <2>1, <2>3, UntouchedParts DEF TypeOK
<1> QED BY <1>3, <1>4, <1>5, <1>6 DEF Tick

\* A job is a composition of a task's work or the publication of an approval.
LEMMA Jobs ==
  ASSUME TypeOK
  PROVE  /\ \A place : At("integrate", place) =>
              job \in Composition /\ job.id \in Tasks /\ job.row \in TaskRow
         /\ \A place : At("publish", place) =>
              job \in Publication /\ job.id \in DOMAIN approvals /\ job.row \in ApprovalRow
BY DEF TypeOK, TypeJob, At, Composition, Publication

LEMMA JobMoves ==
  ASSUME TypeOK, Grown,
         \/ EndsJob
         \/ /\ \E place \in {"start", "compose", "merge", "receipt", "record", "fail",
                             "advance", "verify"} : Goes(place)
            /\ result' \in Commit
  PROVE  TypeJob'
<1>1. Publication \subseteq Publication' /\ Composition' = Composition
  BY DEF Publication, Composition, Grown
<1>2. CASE EndsJob
  BY <1>2, EmptySeq DEF EndsJob, TypeJob, Commit
<1>3. ASSUME NEW place \in {"start", "compose", "merge", "receipt", "record", "fail",
                            "advance", "verify"},
             Goes(place), result' \in Commit
      PROVE  TypeJob'
  BY <1>1, <1>3 DEF Goes, TypeOK, TypeJob
<1> QED BY <1>2, <1>3

LEMMA IntegrateKeepsTypes ==
  ASSUME TypeOK, Integrate
  PROVE  TypeStep
<1> USE DEF TypeStep
<1>j. /\ \A place : At("integrate", place) =>
            job \in Composition /\ job.id \in Tasks /\ job.row \in TaskRow
      /\ result \in Commit /\ main \in Commit /\ staging \in Commit
      /\ task \in [Tasks -> TaskRow] /\ approvals \in Seq(ApprovalRow)
      /\ intent \in [Tasks -> Commit \cup {None}]
      /\ receipt \in [Tasks -> Commit \cup {None}]
  BY Jobs DEF TypeOK, TypeJob, TypeGit, TypeStore, TypeFiles
<1>1. ASSUME IntegrateDeclines \/ IntegrateRefuses \/ ComposeFails \/ MergeFails
      PROVE  TypeStep
  <2>1. Grown /\ UNCHANGED <<store, git, files, tick>>
    BY <1>1 DEF IntegrateDeclines, IntegrateRefuses, ComposeFails, MergeFails, Grown, store
  <2>2. EndsJob \/ (Goes("fail") /\ UNCHANGED result)
    BY <1>1 DEF IntegrateDeclines, IntegrateRefuses, ComposeFails, MergeFails
  <2>3. TypeJob'
    BY <1>j, <2>1, <2>2, JobMoves
  <2> QED BY <2>1, <2>3, UntouchedParts DEF TypeOK
<1>2. ASSUME IntegrateRecovers \/ IntegrateResumes
      PROVE  TypeStep
  <2>1. Grown /\ UNCHANGED <<store, git, files, tick>>
    BY <1>2 DEF IntegrateRecovers, IntegrateResumes, Grown, store
  <2>2. result' = Saved /\ (Goes("receipt") \/ Goes("merge"))
    BY <1>2 DEF IntegrateRecovers, IntegrateResumes
  <2>3. Saved \in Commit
    BY <1>2, <1>j DEF IntegrateRecovers, IntegrateResumes, Saved, Completed, Prepared
  <2>4. TypeJob'
    BY <2>1, <2>2, <2>3, JobMoves
  <2> QED BY <2>1, <2>4, UntouchedParts DEF TypeOK
<1>3. ASSUME IntegrateStarts
      PROVE  TypeStep
  <2>1. Grown /\ UNCHANGED <<approvals, project, git, files, tick>>
    BY <1>3 DEF IntegrateStarts, Grown
  <2> DEFINE tries == job.row.integration_tries + 1
  <2>2. job.id \in Tasks /\ tries \in Nat
    BY <1>3, <1>j DEF IntegrateStarts, TaskRow
  <2>6. task' = [task EXCEPT ![job.id].integration_tries = tries]
    BY <1>3 DEF IntegrateStarts
  <2>3. task' \in [Tasks -> TaskRow]
    <3> HIDE DEF tries
    <3> QED BY ZenonT(40), <1>j, <2>2, <2>6 DEF TaskRow
  <2>4. TypeStore'
    BY <2>1, <2>3 DEF TypeOK, TypeStore
  <2>5. TypeJob'
    BY <1>3, <1>j, <2>1, JobMoves DEF IntegrateStarts
  <2> QED BY <2>1, <2>4, <2>5, UntouchedParts DEF TypeOK
<1>4. ASSUME Compose
      PROVE  TypeStep
  <2>1. Grown /\ UNCHANGED <<store, git, receipt, announced, tick>>
    BY <1>4 DEF Compose, Grown, store
  <2>2. [by |-> job.id, build |-> job.row.build_attempt, token |-> job.row.token] \in Change
    BY <1>4, <1>j DEF Compose, Change, TaskRow
  <2>3. result' \in Commit
    BY <1>4, <1>j, <2>2, PrefixOfAppend DEF Compose, Commit
  <2>4. TypeFiles'
    BY <1>4, <1>j, <2>1, <2>3 DEF Compose, IntentWritten, TypeOK, TypeFiles, store
  <2>5. TypeJob'
    BY <1>4, <2>1, <2>3, JobMoves DEF Compose
  <2> QED BY <2>1, <2>4, <2>5, UntouchedParts DEF TypeOK
<1>5. ASSUME Merge
      PROVE  TypeStep
  <2>1. Grown /\ UNCHANGED <<store, main, files, tick, result>>
    BY <1>5 DEF Merge, Grown, store
  <2>2. TypeGit'
    BY <1>5, <1>j DEF Merge, FastForwarded, TypeGit
  <2>3. Goes("receipt") \/ Goes("fail")
    BY <1>5 DEF Merge
  <2>4. TypeJob'
    BY <1>j, <2>1, <2>3, JobMoves
  <2> QED BY <2>1, <2>2, <2>4, UntouchedParts DEF TypeOK
<1>6. ASSUME WriteReceipt
      PROVE  TypeStep
  <2>1. Grown /\ UNCHANGED <<store, git, intent, announced, tick, result>>
    BY <1>6 DEF WriteReceipt, Grown, store
  <2>2. TypeFiles'
    BY <1>6, <1>j, <2>1 DEF WriteReceipt, TypeOK, TypeFiles, store
  <2>3. TypeJob'
    BY <1>6, <1>j, <2>1, JobMoves DEF WriteReceipt
  <2> QED BY <2>1, <2>2, <2>3, UntouchedParts DEF TypeOK
<1>7. ASSUME RecordStaged
      PROVE  TypeStep
  <2>1. UNCHANGED <<git, files, tick>> /\ job.id \in Tasks
    BY <1>7, <1>j DEF RecordStaged
  <2> DEFINE superseding == [a \in DOMAIN approvals |->
                               IF approvals[a].task \in Covered /\ approvals[a].state = "pending"
                               THEN [approvals[a] EXCEPT !.state = "superseded"]
                               ELSE approvals[a]]
  <2>2. superseding \in Seq(ApprovalRow) /\ Len(superseding) = Len(approvals)
    <3>1. \A a \in DOMAIN approvals : superseding[a] \in ApprovalRow
      BY Rows DEF ApprovalRow
    <3>2. DOMAIN superseding = DOMAIN approvals
          /\ superseding = [a \in DOMAIN approvals |-> superseding[a]]
      OBVIOUS
    <3> QED BY <1>j, <3>1, <3>2, ReplacedRows
  <2>3. Approval \in ApprovalRow
    <3>1. Covered \subseteq Tasks
      BY <2>1 DEF Covered
    <3> QED BY <1>j, <2>1, <3>1, Rows DEF Approval, ApprovalRow, SourceExpected, ProjectRow
  <2>4. approvals' = Append(superseding, Approval)
    BY <1>7 DEF RecordStaged
  <2>5. approvals' \in Seq(ApprovalRow) /\ Len(approvals') = Len(approvals) + 1
    <3> HIDE DEF superseding
    <3> QED BY <2>2, <2>3, <2>4, PrefixOfAppend
  <2>6. Grown
    <3>1. DOMAIN approvals = 1..Len(approvals) /\ DOMAIN approvals' = 1..Len(approvals')
          /\ Len(approvals) \in Nat
      BY <1>j, <2>5, LenProperties
    <3> QED BY <2>5, <3>1 DEF Grown
  <2>7. task' \in [Tasks -> TaskRow]
    BY <1>7, <1>j, <2>1 DEF RecordStaged, TaskRow
  <2>8. project' \in ProjectRow
    BY <1>7, <1>j, Rows DEF RecordStaged, ProjectRow
  <2>9. TypeStore'
    BY <2>5, <2>7, <2>8 DEF TypeStore
  <2>10. TypeJob'
    BY <1>7, <2>6, JobMoves DEF RecordStaged
  <2> QED BY <2>1, <2>6, <2>9, <2>10, UntouchedParts DEF TypeOK
<1>8. ASSUME RecordBlocked
      PROVE  TypeStep
  <2>1. Grown /\ UNCHANGED <<approvals, project, git, files, tick>>
    BY <1>8 DEF RecordBlocked, Grown
  <2>2. task' \in [Tasks -> TaskRow]
    BY <1>8, <1>j DEF RecordBlocked, TaskRow
  <2>3. TypeStore'
    BY <2>1, <2>2 DEF TypeOK, TypeStore
  <2>4. TypeJob'
    BY <1>8, <2>1, JobMoves DEF RecordBlocked
  <2> QED BY <2>1, <2>3, <2>4, UntouchedParts DEF TypeOK
<1> QED BY <1>1, <1>2, <1>3, <1>4, <1>5, <1>6, <1>7, <1>8 DEF Integrate

LEMMA PublishKeepsTypes ==
  ASSUME TypeOK, Publish
  PROVE  TypeStep
<1> USE DEF TypeStep
<1>j. /\ \A place : At("publish", place) =>
            /\ job.id \in DOMAIN approvals /\ job.row \in ApprovalRow
            /\ job.row.candidate \in Commit /\ job.row.expected_source \in Commit
      /\ result \in Commit
  BY Jobs DEF TypeOK, TypeJob, ApprovalRow
<1>1. ASSUME PublishRecovers \/ PublishRefuses \/ PublishVerifies
      PROVE  TypeStep
  <2>1. Grown /\ UNCHANGED <<store, git, files, tick, result>>
    BY <1>1 DEF PublishRecovers, PublishRefuses, PublishVerifies, Grown, store
  <2>2. Goes("record") \/ Goes("fail")
    BY <1>1 DEF PublishRecovers, PublishRefuses, PublishVerifies
  <2>3. TypeJob'
    BY <1>j, <2>1, <2>2, JobMoves
  <2> QED BY <2>1, <2>3, UntouchedParts DEF TypeOK
<1>2. ASSUME PublishStarts
      PROVE  TypeStep
  <2>1. Grown /\ UNCHANGED <<store, git, intent, receipt, tick, result>>
    BY <1>2 DEF PublishStarts, Grown, store
  <2>2. TypeFiles'
    BY <1>2, <1>j, <2>1 DEF PublishStarts, TypeOK, TypeFiles, store
  <2>3. TypeJob'
    BY <1>2, <1>j, <2>1, JobMoves DEF PublishStarts
  <2> QED BY <2>1, <2>2, <2>3, UntouchedParts DEF TypeOK
<1>3. ASSUME PublishAdvances
      PROVE  TypeStep
  <2>1. Grown /\ UNCHANGED <<store, staging, files, tick, result>>
    BY <1>3 DEF PublishAdvances, Grown, store
  <2>2. TypeGit'
    BY <1>3, <1>j, <2>1 DEF PublishAdvances, TypeOK, TypeGit
  <2>3. Goes("verify") \/ Goes("fail")
    BY <1>3 DEF PublishAdvances
  <2>4. TypeJob'
    BY <1>j, <2>1, <2>3, JobMoves
  <2> QED BY <2>1, <2>2, <2>4, UntouchedParts DEF TypeOK
<1>4. ASSUME NEW conclusion \in {"integrated", "failed"}, approvals' = Concluded(conclusion),
             job.id \in DOMAIN approvals, job.row.expected_source \in Commit
      PROVE  approvals' \in Seq(ApprovalRow) /\ Grown
  <2>1. /\ DOMAIN approvals' = DOMAIN approvals
        /\ approvals' = [a \in DOMAIN approvals |-> approvals'[a]]
        /\ \A a \in DOMAIN approvals : approvals'[a] \in ApprovalRow
    BY ZenonT(40), <1>4, Rows DEF Concluded, ApprovalRow
  <2> QED BY <2>1, ApprovalsRewritten
<1>5. ASSUME RecordIntegrated
      PROVE  TypeStep
  <2>1. UNCHANGED <<git, files, tick>> /\ EndsJob
    BY <1>5 DEF RecordIntegrated
  <2>2. approvals' \in Seq(ApprovalRow) /\ Grown
    BY <1>4, <1>5, <1>j DEF RecordIntegrated
  <2>3. task' \in [Tasks -> TaskRow]
    BY <1>5, Rows DEF RecordIntegrated, TaskRow
  <2>4. project' \in ProjectRow
    BY <1>5, <1>j, Rows DEF RecordIntegrated, ProjectRow
  <2>5. TypeStore'
    BY <2>2, <2>3, <2>4 DEF TypeStore
  <2> QED BY <2>1, <2>2, <2>5, JobMoves, UntouchedParts DEF TypeOK
<1>6. ASSUME RecordFailed
      PROVE  TypeStep
  <2>1. UNCHANGED <<task, project, git, files, tick>> /\ EndsJob
    BY <1>6 DEF RecordFailed
  <2>2. approvals' \in Seq(ApprovalRow) /\ Grown
    BY <1>4, <1>6, <1>j DEF RecordFailed
  <2>3. TypeStore'
    BY <2>1, <2>2 DEF TypeOK, TypeStore
  <2> QED BY <2>1, <2>2, <2>3, JobMoves, UntouchedParts DEF TypeOK
<1> QED BY <1>1, <1>2, <1>3, <1>5, <1>6 DEF Publish

LEMMA WriteFailuresKeepTypes ==
  ASSUME TypeOK, WriteFails
  PROVE  TypeStep
<1>1. Grown /\ UNCHANGED <<store, git, files, tick>>
  BY DEF WriteFails, Grown, store
<1>2. EndsJob \/ (Goes("fail") /\ UNCHANGED result)
  BY DEF WriteFails
<1>3. TypeJob'
  BY <1>1, <1>2, JobMoves DEF TypeOK, TypeJob
<1> QED BY <1>1, <1>3, UntouchedParts DEF TypeOK, TypeStep

LEMMA StepsKeepTypes ==
  ASSUME TypeOK, [Next]_vars
  PROVE  TypeStep
<1>1. CASE UNCHANGED vars
  <2>1. Grown /\ UNCHANGED <<store, git, files, tick, running>>
    BY <1>1 DEF vars, store, Grown
  <2> QED BY <2>1, UntouchedParts DEF TypeOK, TypeStep
<1>2. CASE Next
  BY <1>2, WorldKeepsTypes, RequestsKeepTypes, TickKeepsTypes, IntegrateKeepsTypes,
     PublishKeepsTypes, WriteFailuresKeepTypes DEF Next
<1> QED BY <1>1, <1>2

\* Every variable keeps its type: the rows, commits, files, offers and the job are at every
\* point what the code stores, and what refers to an approval refers to one that exists.
THEOREM StagingTypeCorrect == Spec => []TypeOK
<1>1. TypeOK /\ [Next]_vars => TypeOK'
  BY StepsKeepTypes DEF TypeStep
<1> QED BY <1>1, TypesInitially, PTL DEF Spec

-------------------------------------------------------------------------------
(* Who changes what publication depends on *)

LEMMA WhoWritesApprovals ==
  ASSUME [Next]_vars
  PROVE  \/ UNCHANGED approvals
         \/ \E a \in DOMAIN approvals : Accept(a) \/ Reject(a) \/ RequestIntegration(a)
         \/ RecordStaged \/ RecordIntegrated \/ RecordFailed
<1>1. CASE UNCHANGED vars
  BY <1>1 DEF vars, store
<1>2. CASE Requested
  BY <1>2 DEF Requested, AddGoal, GoalRefused, Retry, SetPolicy, SetEnabled, store
<1>3. CASE Tick
  BY <1>3 DEF Tick, ReadApprovals, ReadTasks, TickEnds, Submit, store
<1>4. CASE Integrate
  BY <1>4 DEF Integrate, IntegrateDeclines, IntegrateRecovers, IntegrateResumes, IntegrateStarts,
     IntegrateRefuses, Compose, ComposeFails, MergeFails, Merge, WriteReceipt, RecordBlocked, store
<1>5. CASE Publish
  BY <1>5 DEF Publish, PublishRecovers, PublishStarts, PublishRefuses, PublishAdvances,
     PublishVerifies, store
<1>6. CASE OwnerCommits \/ (\E t \in Tasks : WorkPasses(t) \/ WorkStops(t))
             \/ WriteFails \/ ControllerCrash \/ ControllerRestarts
  BY <1>6 DEF OwnerCommits, WorkPasses, WorkStops, WriteFails, ControllerCrash,
     ControllerRestarts, store
<1> QED BY <1>1, <1>2, <1>3, <1>4, <1>5, <1>6 DEF Next

LEMMA WhoMovesMain ==
  ASSUME [Next]_vars
  PROVE  UNCHANGED main \/ OwnerCommits \/ (PublishAdvances /\ MainExpected)
<1>1. CASE UNCHANGED vars
  BY <1>1 DEF vars, git
<1>2. CASE Requested
  BY <1>2 DEF Requested, AddGoal, GoalRefused, Retry, Accept, Reject, RequestIntegration,
     SetPolicy, SetEnabled, git
<1>3. CASE Tick
  BY <1>3 DEF Tick, ReadApprovals, ReadTasks, TickEnds, Submit, git
<1>4. CASE Integrate
  BY <1>4 DEF Integrate, IntegrateDeclines, IntegrateRecovers, IntegrateResumes, IntegrateStarts,
     IntegrateRefuses, Compose, ComposeFails, MergeFails, Merge, WriteReceipt, RecordStaged,
     RecordBlocked, git
<1>5. CASE Publish
  BY <1>5 DEF Publish, PublishRecovers, PublishStarts, PublishRefuses, PublishAdvances,
     PublishVerifies, RecordIntegrated, RecordFailed, git
<1>6. CASE OwnerCommits \/ (\E t \in Tasks : WorkPasses(t) \/ WorkStops(t))
             \/ WriteFails \/ ControllerCrash \/ ControllerRestarts
  BY <1>6 DEF WorkPasses, WorkStops, WriteFails, ControllerCrash, ControllerRestarts, git
<1> QED BY <1>1, <1>2, <1>3, <1>4, <1>5, <1>6 DEF Next

LEMMA WhoSetsIntegratedHead ==
  ASSUME TypeOK, [Next]_vars
  PROVE  \/ project'.integrated_head = project.integrated_head
         \/ project'.integrated_head = main /\ UNCHANGED main
         \/ RecordIntegrated
<1>p. project \in ProjectRow
  BY Rows
<1>1. CASE UNCHANGED vars
  BY <1>1 DEF vars, store
<1>2. ASSUME NEW t \in Tasks, AddGoal(t)
      PROVE  \/ project'.integrated_head = project.integrated_head
             \/ project'.integrated_head = main /\ UNCHANGED main
  BY <1>2, <1>p DEF AddGoal, ProjectRow
<1>3. CASE Requested
  BY <1>2, <1>3, <1>p DEF Requested, GoalRefused, Retry, Accept, Reject, RequestIntegration,
     SetPolicy, SetEnabled, ProjectRow, store
<1>4. CASE Tick
  BY <1>4 DEF Tick, ReadApprovals, ReadTasks, TickEnds, Submit, store
<1>5. CASE Integrate
  BY <1>5, <1>p DEF Integrate, IntegrateDeclines, IntegrateRecovers, IntegrateResumes,
     IntegrateStarts, IntegrateRefuses, Compose, ComposeFails, MergeFails, Merge, WriteReceipt,
     RecordStaged, RecordBlocked, ProjectRow, store
<1>6. CASE Publish
  BY <1>6 DEF Publish, PublishRecovers, PublishStarts, PublishRefuses, PublishAdvances,
     PublishVerifies, RecordFailed, store
<1>7. CASE OwnerCommits \/ (\E t \in Tasks : WorkPasses(t) \/ WorkStops(t))
             \/ WriteFails \/ ControllerCrash \/ ControllerRestarts
  BY <1>7 DEF OwnerCommits, WorkPasses, WorkStops, WriteFails, ControllerCrash,
     ControllerRestarts, store
<1> QED BY <1>1, <1>3, <1>4, <1>5, <1>6, <1>7 DEF Next

\* A step that does not bring a publication to the update of main, nor to its record.
JobElsewhere ==
  \/ UNCHANGED <<job, step>> \/ job' = None \/ step' = "start"
  \/ job' = job /\ (job.kind = "integrate" \/ step' \notin {"advance", "record"})

LEMMA WhoMovesTheJob ==
  ASSUME [Next]_vars
  PROVE  JobElsewhere \/ PublishStarts \/ PublishRecovers \/ PublishVerifies
<1>1. CASE UNCHANGED vars
  BY <1>1 DEF vars, running, JobElsewhere
<1>2. CASE Requested
  BY <1>2 DEF Requested, AddGoal, GoalRefused, Retry, Accept, Reject, RequestIntegration,
     SetPolicy, SetEnabled, running, JobElsewhere
<1>3. CASE Tick
  BY <1>3 DEF Tick, ReadApprovals, ReadTasks, TickEnds, Submit, running, JobElsewhere
<1>4. CASE Integrate
  BY <1>4 DEF Integrate, IntegrateDeclines, IntegrateRecovers, IntegrateResumes, IntegrateStarts,
     IntegrateRefuses, Compose, ComposeFails, MergeFails, Merge, WriteReceipt, RecordStaged,
     RecordBlocked,
     At, Goes, EndsJob, JobElsewhere
<1>5. CASE Publish
  BY <1>5 DEF Publish, PublishRefuses, PublishAdvances, RecordIntegrated, RecordFailed,
     Goes, EndsJob, JobElsewhere
<1>6. CASE OwnerCommits \/ (\E t \in Tasks : WorkPasses(t) \/ WorkStops(t))
             \/ WriteFails \/ ControllerCrash \/ ControllerRestarts
  BY <1>6 DEF OwnerCommits, WorkPasses, WorkStops, WriteFails, ControllerCrash,
     ControllerRestarts, Goes, EndsJob, running, JobElsewhere
<1> QED BY <1>1, <1>2, <1>3, <1>4, <1>5, <1>6 DEF Next

\* What the scheduler and its job work on.
Underway == offers \cup ({job} \ {None})

\* Nothing comes under way that is not a composition or a queued approval.
LEMMA WhatComesUnderway ==
  ASSUME [Next]_vars, NEW o \in Underway'
  PROVE  \/ o \in Underway
         \/ o.kind = "integrate"
         \/ /\ ReadApprovals
            /\ \E a \in DOMAIN approvals : /\ Waiting(a) /\ o.id = a
                                          /\ o.row = approvals[a]
<1>1. CASE UNCHANGED vars
  BY <1>1 DEF vars, tick, running, Underway
<1>2. CASE Requested
  BY <1>2 DEF Requested, AddGoal, GoalRefused, Retry, Accept, Reject, RequestIntegration,
     SetPolicy, SetEnabled, tick, running, Underway
<1>3. CASE ReadApprovals
  BY <1>3 DEF ReadApprovals, running, Underway
<1>4. CASE ReadTasks
  BY <1>4 DEF ReadTasks, ToIntegrate, running, Underway
<1>5. CASE Tick
  BY <1>3, <1>4, <1>5 DEF Tick, TickEnds, Submit, running, Underway
<1>6. CASE Integrate
  BY <1>6 DEF Integrate, IntegrateDeclines, IntegrateRecovers, IntegrateResumes, IntegrateStarts,
     IntegrateRefuses, Compose, ComposeFails, MergeFails, Merge, WriteReceipt, RecordStaged,
     RecordBlocked,
     Goes, EndsJob, tick, Underway
<1>7. CASE Publish
  BY <1>7 DEF Publish, PublishRecovers, PublishStarts, PublishRefuses, PublishAdvances,
     PublishVerifies, RecordIntegrated, RecordFailed, Goes, EndsJob, tick, Underway
<1>8. CASE OwnerCommits \/ (\E t \in Tasks : WorkPasses(t) \/ WorkStops(t))
             \/ WriteFails \/ ControllerCrash \/ ControllerRestarts
  BY <1>8 DEF OwnerCommits, WorkPasses, WorkStops, WriteFails, ControllerCrash,
     ControllerRestarts, Goes, EndsJob, tick, running, Underway
<1> QED BY <1>1, <1>2, <1>5, <1>6, <1>7, <1>8 DEF Next

-------------------------------------------------------------------------------
(* What is published was accepted, and what is recorded as published is in main *)

\* Only accepted candidates are ever asked to be published.
RequestsWereAccepted ==
  \A a \in DOMAIN approvals :
     approvals[a].publication # "none" => approvals[a].state = "accept"

\* The row a publication works from may be old, but it is about the commit the approval is
\* still about, and that is still accepted.
RowsStayTrue ==
  \A o \in Underway : o.kind = "publish" =>
     /\ approvals[o.id].state = "accept"
     /\ approvals[o.id].candidate = o.row.candidate

UpdatesExtendMain ==
  At("publish", "advance") => IsPrefix(job.row.expected_source, job.row.candidate)
RecordsFollowMain ==
  At("publish", "record") => IsPrefix(job.row.candidate, main)

PublicationInvariant ==
  /\ TypeOK
  /\ RequestsWereAccepted /\ RowsStayTrue
  /\ UpdatesExtendMain /\ RecordsFollowMain
  /\ IntegratedIsInMain

LEMMA InvariantInitially == Init => PublicationInvariant
<1> SUFFICES ASSUME Init PROVE PublicationInvariant
  OBVIOUS
<1>1. TypeOK
  BY TypesInitially
<1>2. IsPrefix(<<>>, <<>>)
  BY PrefixReflexive, EmptySeq
<1>3. DOMAIN approvals = {} /\ Underway = {} /\ job = None
      /\ project.integrated_head = <<>> /\ main = <<>>
  BY EmptySeq DEF Init, Underway
<1> QED BY <1>1, <1>2, <1>3 DEF PublicationInvariant, RequestsWereAccepted, RowsStayTrue,
      UpdatesExtendMain, RecordsFollowMain, IntegratedIsInMain, At

\* Main only moves forward.
LEMMA MainGrows ==
  ASSUME PublicationInvariant, [Next]_vars
  PROVE  IsPrefix(main, main') /\ main \in Commit /\ main' \in Commit
<1>1. TypeOK /\ TypeOK'
  BY StepsKeepTypes DEF PublicationInvariant, TypeStep
<1>2. main \in Commit /\ main' \in Commit
  BY <1>1 DEF TypeOK, TypeGit
<1>3. CASE UNCHANGED main
  BY <1>2, <1>3, PrefixReflexive DEF Commit
<1>4. CASE OwnerCommits
  <2>1. main \in Seq(Change) /\ Len(main) \in Nat
    BY <1>2, LenProperties DEF Commit
  <2>2. [by |-> Owner, build |-> 0, token |-> Len(main)] \in Change
    BY <2>1 DEF Change
  <2> QED BY <1>2, <1>4, <2>1, <2>2, PrefixOfAppend DEF OwnerCommits
<1>5. CASE PublishAdvances /\ MainExpected
  BY <1>2, <1>5 DEF PublishAdvances, MainExpected, PublicationInvariant, UpdatesExtendMain
<1> QED BY <1>2, <1>3, <1>4, <1>5, WhoMovesMain

\* An accepted approval stays accepted, and about the same commit.
AcceptedStay ==
  \A a \in DOMAIN approvals :
     /\ a \in DOMAIN approvals'
     /\ approvals'[a].candidate = approvals[a].candidate
     /\ approvals[a].state = "accept" => approvals'[a].state = "accept"

\* RecordStaged supersedes pending approvals and adds one.
LEMMA NewApproval ==
  ASSUME TypeOK, RecordStaged
  PROVE  LET new == Len(approvals) + 1 IN
         /\ DOMAIN approvals' = DOMAIN approvals \cup {new} /\ new \notin DOMAIN approvals
         /\ approvals'[new] = Approval
         /\ \A a \in DOMAIN approvals :
              \/ approvals'[a] = approvals[a]
              \/ /\ approvals[a].state = "pending"
                 /\ approvals'[a] = [approvals[a] EXCEPT !.state = "superseded"]
<1> DEFINE superseding == [a \in DOMAIN approvals |->
                             IF approvals[a].task \in Covered /\ approvals[a].state = "pending"
                             THEN [approvals[a] EXCEPT !.state = "superseded"]
                             ELSE approvals[a]]
<1>1. approvals' = Append(superseding, Approval)
  BY DEF RecordStaged
<1>2. Len(approvals) \in Nat /\ DOMAIN approvals = 1..Len(approvals)
      /\ \A a \in DOMAIN approvals : approvals[a] \in ApprovalRow
  BY Rows
<1>3. \A a \in DOMAIN approvals : superseding[a] \in ApprovalRow
  BY <1>2 DEF ApprovalRow
<1>4. superseding \in Seq(ApprovalRow) /\ Len(superseding) = Len(approvals)
  <2>1. approvals \in Seq(ApprovalRow)
    BY DEF TypeOK, TypeStore
  <2>2. DOMAIN superseding = DOMAIN approvals
        /\ superseding = [a \in DOMAIN approvals |-> superseding[a]]
    OBVIOUS
  <2> QED BY <1>3, <2>1, <2>2, ReplacedRows
<1>5. \A a \in DOMAIN approvals :
        \/ superseding[a] = approvals[a]
        \/ /\ approvals[a].state = "pending"
           /\ superseding[a] = [approvals[a] EXCEPT !.state = "superseded"]
  OBVIOUS
<1> HIDE DEF superseding
<1>6. /\ DOMAIN Append(superseding, Approval) = 1..(Len(superseding) + 1)
      /\ \A a \in 1..Len(superseding) : Append(superseding, Approval)[a] = superseding[a]
      /\ Append(superseding, Approval)[Len(superseding) + 1] = Approval
  BY <1>4
<1> QED BY <1>1, <1>2, <1>4, <1>5, <1>6

LEMMA AcceptedApprovalsStay ==
  ASSUME TypeOK, [Next]_vars
  PROVE  AcceptedStay
<1>1. \A a \in DOMAIN approvals : approvals[a] \in ApprovalRow
  BY Rows
<1>2. CASE UNCHANGED approvals
  BY <1>2 DEF AcceptedStay
<1>3. ASSUME NEW a \in DOMAIN approvals, Accept(a) \/ Reject(a) \/ RequestIntegration(a)
      PROVE  AcceptedStay
  BY <1>1, <1>3 DEF AcceptedStay, Accept, Reject, RequestIntegration, Decidable, ApprovalRow
<1>4. CASE RecordStaged
  BY <1>1, <1>4, NewApproval DEF AcceptedStay, ApprovalRow
<1>5. CASE RecordIntegrated \/ RecordFailed
  BY <1>1, <1>5 DEF AcceptedStay, RecordIntegrated, RecordFailed, Concluded, ApprovalRow
<1> QED BY <1>2, <1>3, <1>4, <1>5, WhoWritesApprovals

LEMMA InvariantIsKept ==
  ASSUME PublicationInvariant, [Next]_vars
  PROVE  PublicationInvariant'
<1>t. TypeOK /\ TypeOK' /\ Grown
  BY StepsKeepTypes DEF PublicationInvariant, TypeStep
<1>r. /\ \A a \in DOMAIN approvals : approvals[a] \in ApprovalRow
      /\ \A a \in DOMAIN approvals' : approvals'[a] \in ApprovalRow
      /\ \A a \in DOMAIN approvals : approvals[a].candidate \in Commit
      /\ project.integrated_head \in Commit
  <2>1. \A a \in DOMAIN approvals : approvals[a] \in ApprovalRow
    BY <1>t, Rows
  <2>2. \A a \in DOMAIN approvals' : approvals'[a] \in ApprovalRow
    <3>1. approvals' \in Seq(ApprovalRow)
      BY <1>t DEF TypeOK, TypeStore
    <3> QED BY <3>1, ElementOfSeq, LenProperties
  <2> QED BY <1>t, <2>1, <2>2, Rows DEF ApprovalRow, ProjectRow
<1>m. IsPrefix(main, main') /\ main \in Commit /\ main' \in Commit
  BY MainGrows
<1>s. AcceptedStay
  BY <1>t, AcceptedApprovalsStay
<1>j. At("publish", step) => /\ job \in Underway /\ job.kind = "publish"
                             /\ job.id \in DOMAIN approvals
                             /\ job.row.candidate \in Commit
                             /\ approvals[job.id].state = "accept"
                             /\ approvals[job.id].candidate = job.row.candidate
  BY <1>t, Jobs DEF At, Underway, PublicationInvariant, RowsStayTrue, ApprovalRow
<1>1. RequestsWereAccepted'
  <2>1. CASE UNCHANGED approvals
    BY <2>1 DEF PublicationInvariant, RequestsWereAccepted
  <2>2. ASSUME NEW a \in DOMAIN approvals, Accept(a) \/ Reject(a) \/ RequestIntegration(a)
        PROVE  RequestsWereAccepted'
    BY <1>r, <2>2 DEF PublicationInvariant, RequestsWereAccepted, Accept, Reject,
       RequestIntegration, Decidable, ApprovalRow
  <2>3. CASE RecordStaged
    BY <1>t, <1>r, <2>3, NewApproval DEF PublicationInvariant, RequestsWereAccepted, Approval,
       ApprovalRow
  <2>4. CASE RecordIntegrated \/ RecordFailed
    BY <1>r, <1>j, <2>4 DEF PublicationInvariant, RequestsWereAccepted, RecordIntegrated,
       RecordFailed, Concluded, ApprovalRow, At
  <2> QED BY <2>1, <2>2, <2>3, <2>4, WhoWritesApprovals
<1>2. RowsStayTrue'
  <2> SUFFICES ASSUME NEW o \in Underway', o.kind = "publish"
               PROVE  /\ approvals'[o.id].state = "accept"
                      /\ approvals'[o.id].candidate = o.row.candidate
    BY DEF RowsStayTrue
  <2>1. CASE o \in Underway
    <3>1. o \in Publication
      BY <1>t, <2>1 DEF TypeOK, TypeTick, TypeJob, Underway, Composition
    <3>2. o.id \in DOMAIN approvals
      BY <3>1 DEF Publication
    <3> QED BY <1>s, <2>1, <3>2 DEF AcceptedStay, PublicationInvariant, RowsStayTrue
  <2>2. ASSUME ReadApprovals, NEW a \in DOMAIN approvals, Waiting(a), o.id = a,
               o.row = approvals[a]
        PROVE  /\ approvals'[o.id].state = "accept"
               /\ approvals'[o.id].candidate = o.row.candidate
    BY <2>2 DEF ReadApprovals, store, Waiting, PublicationInvariant, RequestsWereAccepted
  <2> QED BY <2>1, <2>2, WhatComesUnderway
<1>3. UpdatesExtendMain'
  <2>1. CASE JobElsewhere
    BY <2>1 DEF JobElsewhere, PublicationInvariant, UpdatesExtendMain, At
  <2>2. CASE PublishStarts
    BY <2>2 DEF PublishStarts, Publishable, Goes, UpdatesExtendMain, At
  <2>3. CASE PublishRecovers \/ PublishVerifies
    BY <2>3 DEF PublishRecovers, PublishVerifies, Goes, UpdatesExtendMain, At
  <2> QED BY <2>1, <2>2, <2>3, WhoMovesTheJob
<1>4. RecordsFollowMain'
  <2>1. CASE JobElsewhere
    <3> SUFFICES ASSUME At("publish", "record")'
                 PROVE  IsPrefix(job'.row.candidate, main')
      BY DEF RecordsFollowMain
    <3>1. UNCHANGED <<job, step>>
      BY <2>1 DEF JobElsewhere, At
    <3>2. At("publish", "record") /\ IsPrefix(job.row.candidate, main)
      BY <3>1 DEF At, PublicationInvariant, RecordsFollowMain
    <3> QED BY <1>j, <1>m, <3>1, <3>2, PrefixTransitive DEF At, Commit
  <2>2. CASE PublishStarts
    BY <2>2 DEF PublishStarts, Goes, RecordsFollowMain, At
  <2>3. CASE PublishRecovers \/ PublishVerifies
    BY <1>m, <2>3 DEF PublishRecovers, PublishVerifies, Published, Goes, RecordsFollowMain, At
  <2> QED BY <2>1, <2>2, <2>3, WhoMovesTheJob
<1>5. IntegratedIsInMain'
  <2>1. ASSUME NEW c \in Commit, IsPrefix(c, main)
        PROVE  IsPrefix(c, main')
    BY <1>m, <2>1, PrefixTransitive DEF Commit
  <2>2. RecordIntegrated => job.row.candidate \in Commit /\ IsPrefix(job.row.candidate, main)
    BY <1>j DEF RecordIntegrated, At, PublicationInvariant, RecordsFollowMain
  <2>3. IsPrefix(project'.integrated_head, main')
    <3>1. CASE project'.integrated_head = project.integrated_head
      BY <1>r, <2>1, <3>1 DEF PublicationInvariant, IntegratedIsInMain
    <3>2. CASE project'.integrated_head = main /\ UNCHANGED main
      BY <1>m, <3>2
    <3>3. CASE RecordIntegrated
      BY <1>t, <2>1, <2>2, <3>3, Rows DEF RecordIntegrated, ProjectRow
    <3> QED BY <1>t, <3>1, <3>2, <3>3, WhoSetsIntegratedHead
  <2>4. ASSUME NEW a \in DOMAIN approvals', approvals'[a].publication = "integrated"
        PROVE  IsPrefix(approvals'[a].candidate, main')
    <3>1. CASE UNCHANGED approvals
      BY <1>r, <2>1, <2>4, <3>1 DEF PublicationInvariant, IntegratedIsInMain
    <3>2. ASSUME NEW b \in DOMAIN approvals, Accept(b) \/ Reject(b) \/ RequestIntegration(b)
          PROVE  IsPrefix(approvals'[a].candidate, main')
      <4>1. a \in DOMAIN approvals /\ approvals[a].publication = "integrated"
            /\ approvals'[a].candidate = approvals[a].candidate
        BY <1>r, <2>4, <3>2 DEF Accept, Reject, RequestIntegration, ApprovalRow
      <4> QED BY <1>r, <2>1, <4>1 DEF PublicationInvariant, IntegratedIsInMain
    <3>3. CASE RecordStaged
      <4>1. a \in DOMAIN approvals /\ approvals[a].publication = "integrated"
            /\ approvals'[a].candidate = approvals[a].candidate
        BY <1>t, <1>r, <2>4, <3>3, NewApproval DEF Approval, ApprovalRow
      <4> QED BY <1>r, <2>1, <4>1 DEF PublicationInvariant, IntegratedIsInMain
    <3>4. CASE RecordIntegrated \/ RecordFailed
      <4>1. a \in DOMAIN approvals /\ approvals'[a].candidate = approvals[a].candidate
        BY <1>r, <2>4, <3>4 DEF RecordIntegrated, RecordFailed, Concluded, ApprovalRow
      <4>2. CASE approvals[a].publication = "integrated"
        BY <1>r, <2>1, <4>1, <4>2 DEF PublicationInvariant, IntegratedIsInMain
      <4>3. CASE approvals[a].publication # "integrated"
        <5>1. RecordIntegrated /\ a = job.id
          BY <1>r, <2>4, <3>4, <4>1, <4>3 DEF RecordIntegrated, RecordFailed, Concluded,
             ApprovalRow
        <5>2. approvals[a].candidate = job.row.candidate
          BY <1>j, <5>1 DEF RecordIntegrated, At
        <5> QED BY <2>1, <2>2, <4>1, <5>1, <5>2
      <4> QED BY <4>2, <4>3
    <3> QED BY <3>1, <3>2, <3>3, <3>4, WhoWritesApprovals
  <2> QED BY <2>3, <2>4 DEF IntegratedIsInMain
<1> QED BY <1>t, <1>1, <1>2, <1>3, <1>4, <1>5 DEF PublicationInvariant

\* The inductive invariant of publication.
THEOREM PublicationInvariantHolds == Spec => []PublicationInvariant
BY InvariantInitially, InvariantIsKept, PTL DEF Spec

\* What the records call integrated is in main, through every crash, repetition and refusal.
THEOREM IntegratedWorkIsInMain == Spec => []IntegratedIsInMain
<1>1. PublicationInvariant => IntegratedIsInMain
  BY DEF PublicationInvariant
<1> QED BY <1>1, PublicationInvariantHolds, PTL

-------------------------------------------------------------------------------
(* Staging implements LocalMain *)

AcceptedCommits == {approvals[a].candidate :
                      a \in {b \in DOMAIN approvals : approvals[b].state = "accept"}}

\* A step accepts nothing, or one commit.
LEMMA AcceptsAtMostOne ==
  ASSUME TypeOK, [Next]_vars
  PROVE  \/ AcceptedCommits' = AcceptedCommits
         \/ \E commit \in AcceptedCommits' :
              commit \in Commit /\ AcceptedCommits' = AcceptedCommits \cup {commit}
<1>r. \A a \in DOMAIN approvals : approvals[a] \in ApprovalRow
  BY Rows
<1>s. AcceptedStay
  BY AcceptedApprovalsStay
<1>1. CASE UNCHANGED approvals
  BY <1>1 DEF AcceptedCommits
<1>2. ASSUME NEW a \in DOMAIN approvals, Accept(a)
      PROVE  /\ approvals[a].candidate \in AcceptedCommits' /\ approvals[a].candidate \in Commit
             /\ AcceptedCommits' = AcceptedCommits \cup {approvals[a].candidate}
  <2>1. /\ DOMAIN approvals' = DOMAIN approvals
        /\ approvals'[a].state = "accept" /\ approvals'[a].candidate = approvals[a].candidate
        /\ \A b \in DOMAIN approvals \ {a} : approvals'[b] = approvals[b]
    BY <1>r, <1>2 DEF Accept, ApprovalRow
  <2>2. approvals[a].state # "accept"
    BY <1>2 DEF Accept, Decidable
  <2> QED BY <1>r, <2>1, <2>2 DEF AcceptedCommits, ApprovalRow
<1>3. ASSUME NEW a \in DOMAIN approvals, Reject(a) \/ RequestIntegration(a)
      PROVE  AcceptedCommits' = AcceptedCommits
  <2>1. /\ DOMAIN approvals' = DOMAIN approvals
        /\ \A b \in DOMAIN approvals :
             /\ approvals'[b].state = "accept" <=> approvals[b].state = "accept"
             /\ approvals'[b].candidate = approvals[b].candidate
    BY <1>r, <1>3 DEF Reject, RequestIntegration, Decidable, ApprovalRow
  <2> QED BY <2>1 DEF AcceptedCommits
<1>4. CASE RecordStaged
  <2> DEFINE new == Len(approvals) + 1
  <2>1. /\ DOMAIN approvals' = DOMAIN approvals \cup {new} /\ new \notin DOMAIN approvals
        /\ approvals'[new] = Approval
        /\ \A b \in DOMAIN approvals :
             /\ approvals'[b].state = "accept" <=> approvals[b].state = "accept"
             /\ approvals'[b].candidate = approvals[b].candidate
    BY <1>r, <1>4, NewApproval DEF ApprovalRow
  <2>2. Approval.candidate = result /\ result \in Commit
    BY DEF Approval, TypeOK, TypeJob
  <2> HIDE DEF new
  <2>3. CASE Approval.state = "accept"
    <3>1. result \in AcceptedCommits'
      BY <2>1, <2>2, <2>3 DEF AcceptedCommits
    <3>2. AcceptedCommits' = AcceptedCommits \cup {result}
      BY <2>1, <2>2, <2>3 DEF AcceptedCommits
    <3> QED BY <2>2, <3>1, <3>2
  <2>4. CASE Approval.state # "accept"
    BY <2>1, <2>4 DEF AcceptedCommits
  <2> QED BY <2>3, <2>4
<1>5. CASE RecordIntegrated \/ RecordFailed
  <2>1. /\ DOMAIN approvals' = DOMAIN approvals
        /\ \A b \in DOMAIN approvals :
             /\ approvals'[b].state = approvals[b].state
             /\ approvals'[b].candidate = approvals[b].candidate
    BY <1>r, <1>5 DEF RecordIntegrated, RecordFailed, Concluded, ApprovalRow
  <2> QED BY <2>1 DEF AcceptedCommits
<1> QED BY <1>1, <1>2, <1>3, <1>4, <1>5, WhoWritesApprovals

LEMMA SameSequenceOperators ==
  /\ \A s, t : LocalMainOf!IsPrefix(s, t) <=> IsPrefix(s, t)
  /\ \A s : LocalMainOf!Last(s) = Last(s)
BY DEF LocalMainOf!IsPrefix, IsPrefix, LocalMainOf!Last, Last

LEMMA MainIsImplementedInitially == Init => LocalMainOf!Init
BY EmptySeq DEF Init, LocalMainOf!Init

LEMMA StepsImplementLocalMain ==
  ASSUME PublicationInvariant, [Next]_vars
  PROVE  [LocalMainOf!Next]_<<main, AcceptedCommits>>
<1>t. TypeOK
  BY DEF PublicationInvariant
<1>1. CASE UNCHANGED main
  <2>1. ASSUME NEW commit \in AcceptedCommits', commit \in Commit,
               AcceptedCommits' = AcceptedCommits \cup {commit}
        PROVE  LocalMainOf!Accept
    BY <1>1, <2>1 DEF LocalMainOf!Accept, AcceptedCommits, Commit
  <2> QED BY <1>t, <1>1, <2>1, AcceptsAtMostOne DEF LocalMainOf!Next
<1>2. CASE OwnerCommits
  <2>1. main \in Seq(Change) /\ Len(main) \in Nat
    BY <1>t, LenProperties DEF TypeOK, TypeGit, Commit
  <2> DEFINE change == [by |-> Owner, build |-> 0, token |-> Len(main)]
  <2>2. change \in Change /\ change.by = Owner
    BY <2>1 DEF Change
  <2>3. main' = Append(main, change) /\ UNCHANGED approvals
    BY <1>2 DEF OwnerCommits, store
  <2> HIDE DEF change
  <2>4. Len(main') = Len(main) + 1 /\ IsPrefix(main, main') /\ Last(main') = change
    BY <2>1, <2>2, <2>3, PrefixOfAppend
  <2>5. LocalMainOf!OwnerCommits
    BY <2>2, <2>3, <2>4, SameSequenceOperators DEF LocalMainOf!OwnerCommits
  <2> QED BY <2>5 DEF LocalMainOf!Next
<1>3. CASE PublishAdvances /\ MainExpected
  <2>1. main' = job.row.candidate /\ UNCHANGED approvals /\ At("publish", "advance")
    BY <1>3 DEF PublishAdvances, store
  <2>2. job \in Underway /\ job.kind = "publish" /\ job.id \in DOMAIN approvals
    BY <1>t, <2>1, Jobs DEF At, Underway
  <2>3. main' \in AcceptedCommits
    BY <2>1, <2>2 DEF PublicationInvariant, RowsStayTrue, AcceptedCommits
  <2>4. IsPrefix(main, main')
    BY MainGrows
  <2>5. LocalMainOf!Advance
    BY <2>1, <2>3, <2>4, SameSequenceOperators DEF LocalMainOf!Advance, AcceptedCommits
  <2> QED BY <2>5 DEF LocalMainOf!Next
<1> QED BY <1>1, <1>2, <1>3, WhoMovesMain

\* Main moves only by the owner's commits and to commits that were accepted and extend it.
THEOREM StagingImplementsLocalMain == Spec => ImplementsLocalMain
<1>1. PublicationInvariant /\ [Next]_vars => [LocalMainOf!Next]_LocalMainOf!branch
  BY StepsImplementLocalMain DEF LocalMainOf!branch, AcceptedCommits
<1> QED BY <1>1, MainIsImplementedInitially, PublicationInvariantHolds, PTL
       DEF Spec, ImplementsLocalMain, LocalMainOf!Spec


-------------------------------------------------------------------------------
(* The inductive invariant *)

\* A composition past its first test.
Composing == job # None /\ job.kind = "integrate" /\ step # "start"

\* The head follows staging, and no candidate is ever dropped from it.
CommitsAreOrdered ==
  /\ IsPrefix(project.head, staging)
  /\ \A a \in DOMAIN approvals : IsPrefix(approvals[a].candidate, project.head)

\* An approval's candidate ends in its task's work, and has that of all it speaks for.
CandidatesHaveTheirWork ==
  \A a \in DOMAIN approvals :
     /\ approvals[a].candidate # <<>>
     /\ Last(approvals[a].candidate).by = approvals[a].task
     /\ approvals[a].task \in approvals[a].covered
     /\ \A t \in approvals[a].covered : Built(t, approvals[a].candidate)

\* An intent is the task's current build on top of what was the head.
IntentsExtendHead ==
  \A t \in Tasks : intent[t] # None =>
     /\ intent[t] # <<>>
     /\ Last(intent[t]).by = t /\ Last(intent[t]).build = task[t].build_attempt
     /\ IsPrefix(Front(intent[t]), project.head)

\* The rows under way may be old, but those with the current token have the current build, and
\* those of publications speak for the tasks their approval speaks for.
RowsStayOwn ==
  \A o \in Underway :
     /\ o.kind = "integrate" =>
          /\ o.row.token <= task[o.id].token
          /\ o.row.token = task[o.id].token => o.row.build_attempt = task[o.id].build_attempt
     /\ o.kind = "publish" => o.row.covered = approvals[o.id].covered

\* Nobody takes the task from a composition, nor moves the head or staging meanwhile.
CompositionIsAlone ==
  Composing =>
     /\ ~Stale
     /\ step = "compose" => result = project.head /\ staging = project.head
     /\ step = "merge" =>
          intent[job.id] = result /\ Front(result) = project.head /\ staging = project.head
     /\ step \in {"receipt", "record"} => intent[job.id] = result /\ staging = result

\* The approvals that wait for the owner speak for tasks that wait with them, and only the
\* newest can be decided: of the older ones the task is done and the candidate left behind.
PendingApprovalsWait ==
  \A a \in DOMAIN approvals : approvals[a].state = "pending" =>
     /\ task[approvals[a].task].state \in {"ready_for_approval", "completed"}
     /\ intent[approvals[a].task] = approvals[a].candidate
     /\ \A b \in DOMAIN approvals : a < b =>
          /\ approvals[b].task # approvals[a].task
          /\ Len(approvals[a].candidate) < Len(approvals[b].candidate)
          /\ task[approvals[a].task].state = "completed"

Once(commit) ==
  \A i, j \in DOMAIN commit :
     commit[i].by # Owner /\ commit[i].by = commit[j].by /\ commit[i].token = commit[j].token
       => i = j
\* No change is of a lease that was not granted yet.
Granted(commit) ==
  \A i \in DOMAIN commit : commit[i].by # Owner => commit[i].token <= task[commit[i].by].token

ChangesAreSingle ==
  /\ Once(staging) /\ Granted(staging)
  /\ Once(main) /\ Granted(main)
  /\ \A t \in Tasks : intent[t] # None => Once(intent[t]) /\ Granted(intent[t])

\* What waits to be composed is not in the head yet.
ComposedLater ==
  \A t \in Tasks : task[t].state = "integrating" =>
     \A i \in DOMAIN project.head :
        project.head[i].by = t => project.head[i].token < task[t].token

CompositionInvariant ==
  /\ PublicationInvariant
  /\ CommitsAreOrdered /\ CandidatesHaveTheirWork /\ IntentsExtendHead /\ RowsStayOwn
  /\ CompositionIsAlone /\ PendingApprovalsWait /\ StagedWorkStays
  /\ ChangesAreSingle /\ ComposedLater

-------------------------------------------------------------------------------
(* Commits *)

LEMMA CommitBasics ==
  ASSUME NEW c \in Commit
  PROVE  /\ Len(c) \in Nat /\ DOMAIN c = 1..Len(c)
         /\ \A i \in DOMAIN c : c[i] \in Change
         /\ c # <<>> <=> Len(c) > 0
<1>1. c \in Seq(Change)
  BY DEF Commit
<1>2. Len(c) \in Nat /\ DOMAIN c = 1..Len(c)
  BY <1>1, LenProperties
<1>3. \A i \in DOMAIN c : c[i] \in Change
  BY <1>1, <1>2, ElementOfSeq
<1>4. c = <<>> <=> Len(c) = 0
  BY <1>1, EmptySeq
<1> QED
  BY <1>2, <1>3, <1>4

LEMMA PrefixElements ==
  ASSUME NEW c \in Commit, NEW d \in Commit, IsPrefix(c, d)
  PROVE  /\ Len(c) <= Len(d)
         /\ \A i \in DOMAIN c : i \in DOMAIN d /\ d[i] = c[i]
<1>1. Len(c) <= Len(d) /\ \A i \in 1..Len(c) : c[i] = d[i]
  BY PrefixByElements DEF Commit
<1> QED
  BY <1>1, CommitBasics

LEMMA PrefixAntisymmetric ==
  ASSUME NEW c \in Commit, NEW d \in Commit, IsPrefix(c, d), Len(d) <= Len(c)
  PROVE  c = d
<1>1. Len(c) = Len(d) /\ \A i \in 1..Len(c) : c[i] = d[i]
  BY PrefixElements, CommitBasics
<1> QED
  BY <1>1, SeqEqual DEF Commit

LEMMA FrontOfCommit ==
  ASSUME NEW c \in Commit, c # <<>>
  PROVE  /\ Front(c) \in Commit /\ Len(c) = Len(Front(c)) + 1
         /\ IsPrefix(Front(c), c)
         /\ Len(c) \in DOMAIN c /\ Last(c) = c[Len(c)] /\ Last(c) \in Change
<1>1. /\ Len(c) \in Nat /\ Len(c) > 0 /\ DOMAIN c = 1..Len(c)
      /\ \A i \in DOMAIN c : c[i] \in Change
  BY CommitBasics
<1>2. /\ SubSeq(c, 1, Len(c) - 1) \in Seq(Change)
      /\ Len(SubSeq(c, 1, Len(c) - 1)) = IF 1 <= Len(c) - 1 THEN (Len(c) - 1) - 1 + 1 ELSE 0
      /\ \A i \in 1..((Len(c) - 1) - 1 + 1) : SubSeq(c, 1, Len(c) - 1)[i] = c[1 + i - 1]
  BY <1>1, SubSeqProperties
<1>3. Front(c) = SubSeq(c, 1, Len(c) - 1)
  BY DEF Front
<1>4. Front(c) \in Commit /\ Len(Front(c)) = Len(c) - 1
  BY <1>1, <1>2, <1>3 DEF Commit
<1>5. \A i \in 1..Len(Front(c)) : Front(c)[i] = c[i]
  BY <1>1, <1>2, <1>3, <1>4
<1>6. IsPrefix(Front(c), c)
  BY <1>1, <1>4, <1>5, PrefixByElements DEF Commit
<1> QED
  BY <1>1, <1>4, <1>6 DEF Last

LEMMA AppendToCommit ==
  ASSUME NEW c \in Commit, NEW e \in Change
  PROVE  /\ Append(c, e) \in Commit /\ Append(c, e) # <<>>
         /\ IsPrefix(c, Append(c, e)) /\ Front(Append(c, e)) = c /\ Last(Append(c, e)) = e
         /\ Len(Append(c, e)) = Len(c) + 1
<1> DEFINE d == Append(c, e)
<1>1. d \in Commit /\ IsPrefix(c, d) /\ Len(d) = Len(c) + 1 /\ Last(d) = e
  BY PrefixOfAppend DEF Commit
<1>2. Len(c) \in Nat
  BY CommitBasics
<1> HIDE DEF d
<1>3. d # <<>>
  BY <1>1, <1>2, CommitBasics
<1>4. /\ Front(d) \in Commit /\ Len(Front(d)) = Len(c)
      /\ \A i \in 1..Len(c) : Front(d)[i] = d[i]
  BY <1>1, <1>2, <1>3, FrontOfCommit, PrefixElements, CommitBasics
<1>5. \A i \in 1..Len(c) : c[i] = d[i]
  BY <1>1, PrefixElements, CommitBasics
<1>6. Front(d) = c
  BY <1>4, <1>5, SeqEqual DEF Commit
<1> QED
  BY <1>1, <1>3, <1>6 DEF d

\* What a commit has, its descendants have.
LEMMA DescendantsKeepWork ==
  ASSUME NEW c \in Commit, NEW d \in Commit, IsPrefix(c, d), NEW t
  PROVE  /\ Built(t, c) => Built(t, d)
         /\ Composes(t, c) => Composes(t, d)
BY PrefixElements DEF Built, Composes

LEMMA AncestorsAreSingle ==
  ASSUME NEW c \in Commit, NEW d \in Commit, IsPrefix(c, d)
  PROVE  /\ Once(d) => Once(c)
         /\ Granted(d) => Granted(c)
BY PrefixElements DEF Once, Granted

-------------------------------------------------------------------------------
(* Who changes what *)

\* sync_staging(): staging is brought to main.
FollowsMain ==
  /\ Behind /\ Related(staging, main)
  /\ staging' = FastForwarded(main)
  /\ UNCHANGED main

LEMMA WhoMovesStaging ==
  ASSUME [Next]_vars
  PROVE  UNCHANGED staging \/ FollowsMain \/ Merge
<1>1. CASE UNCHANGED vars
  BY <1>1 DEF vars, git
<1>2. ASSUME NEW t \in Tasks, AddGoal(t)
      PROVE  UNCHANGED staging \/ FollowsMain
  BY <1>2 DEF AddGoal, FollowsMain
<1>3. CASE Requested
  BY <1>2, <1>3 DEF Requested, GoalRefused, FollowsMain, Retry, Accept, Reject,
     RequestIntegration, SetPolicy, SetEnabled, git
<1>4. CASE Tick
  BY <1>4 DEF Tick, ReadApprovals, ReadTasks, TickEnds, Submit, git
<1>5. CASE Integrate
  BY <1>5 DEF Integrate, IntegrateDeclines, IntegrateRecovers, IntegrateResumes, IntegrateStarts,
     IntegrateRefuses, Compose, ComposeFails, MergeFails, WriteReceipt, RecordStaged,
     RecordBlocked, git
<1>6. CASE Publish
  BY <1>6 DEF Publish, PublishRecovers, PublishStarts, PublishRefuses, PublishAdvances,
     PublishVerifies, RecordIntegrated, RecordFailed, git
<1>7. CASE OwnerCommits \/ (\E t \in Tasks : WorkPasses(t) \/ WorkStops(t))
             \/ WriteFails \/ ControllerCrash \/ ControllerRestarts
  BY <1>7 DEF OwnerCommits, WorkPasses, WorkStops, WriteFails, ControllerCrash,
     ControllerRestarts, git
<1> QED
  BY <1>1, <1>3, <1>4, <1>5, <1>6, <1>7 DEF Next

LEMMA WhoMovesHead ==
  ASSUME TypeOK, [Next]_vars
  PROVE  \/ project'.head = project.head
         \/ FollowsMain /\ project'.head = main /\ UNCHANGED approvals
         \/ RecordStaged /\ project'.head = result
<1>p. project \in ProjectRow
  BY Rows
<1>1. CASE UNCHANGED vars
  BY <1>1 DEF vars, store
<1>2. ASSUME NEW t \in Tasks, AddGoal(t)
      PROVE  \/ project'.head = project.head
             \/ FollowsMain /\ project'.head = main /\ UNCHANGED approvals
  BY <1>2, <1>p DEF AddGoal, FollowsMain, ProjectRow
<1>3. CASE Requested
  BY <1>2, <1>3, <1>p DEF Requested, GoalRefused, Retry, Accept, Reject,
     RequestIntegration, SetPolicy, SetEnabled, store, ProjectRow
<1>4. CASE Tick
  BY <1>4 DEF Tick, ReadApprovals, ReadTasks, TickEnds, Submit, store
<1>5. CASE Integrate
  BY <1>5, <1>p DEF Integrate, IntegrateDeclines, IntegrateRecovers, IntegrateResumes,
     IntegrateStarts, IntegrateRefuses, Compose, ComposeFails, MergeFails, Merge, WriteReceipt,
     RecordStaged,
     RecordBlocked, store, ProjectRow
<1>6. CASE Publish
  BY <1>6, <1>p DEF Publish, PublishRecovers, PublishStarts, PublishRefuses, PublishAdvances,
     PublishVerifies, RecordIntegrated, RecordFailed, store, ProjectRow
<1>7. CASE OwnerCommits \/ (\E t \in Tasks : WorkPasses(t) \/ WorkStops(t))
             \/ WriteFails \/ ControllerCrash \/ ControllerRestarts
  BY <1>7 DEF OwnerCommits, WorkPasses, WorkStops, WriteFails, ControllerCrash,
     ControllerRestarts, store
<1> QED
  BY <1>1, <1>3, <1>4, <1>5, <1>6, <1>7 DEF Next

LEMMA WhoWritesIntents ==
  ASSUME TypeOK, [Next]_vars
  PROVE  \/ UNCHANGED intent
         \/ Compose
         \/ \E t \in Tasks : /\ WorkPasses(t) /\ task[t].phase = "build"
                             /\ intent' = [intent EXCEPT ![t] = None]
<1>1. CASE UNCHANGED vars
  BY <1>1 DEF vars, files
<1>3. CASE Requested
  BY <1>3 DEF Requested, AddGoal, GoalRefused, Retry, Accept, Reject,
     RequestIntegration, SetPolicy, SetEnabled, files
<1>4. CASE Tick
  BY <1>4 DEF Tick, ReadApprovals, ReadTasks, TickEnds, Submit, files
<1>5. CASE Integrate
  BY <1>5 DEF Integrate, IntegrateDeclines, IntegrateRecovers, IntegrateResumes,
     IntegrateStarts, IntegrateRefuses, ComposeFails, MergeFails, Merge, WriteReceipt, RecordStaged,
     RecordBlocked, files
<1>6. CASE Publish
  BY <1>6 DEF Publish, PublishRecovers, PublishStarts, PublishRefuses, PublishAdvances,
     PublishVerifies, RecordIntegrated, RecordFailed, files
<1>8. ASSUME NEW t \in Tasks, WorkPasses(t)
      PROVE  \/ UNCHANGED intent
             \/ task[t].phase = "build" /\ intent' = [intent EXCEPT ![t] = None]
  BY <1>8 DEF WorkPasses
<1>7. CASE OwnerCommits \/ (\E t \in Tasks : WorkPasses(t) \/ WorkStops(t))
             \/ WriteFails \/ ControllerCrash \/ ControllerRestarts
  BY <1>7, <1>8 DEF OwnerCommits, WorkStops, WriteFails, ControllerCrash,
     ControllerRestarts, files
<1> QED
  BY <1>1, <1>3, <1>4, <1>5, <1>6, <1>7 DEF Next

\* What a step does to one task's row, apart from its tries and its phase.
Moves(t, from, to) == task[t].state \in from /\ task'[t].state = to
SameWork(t) == task'[t].token = task[t].token /\ task'[t].build_attempt = task[t].build_attempt
Decided(t, a) ==
  \/ t = approvals[a].task
  \/ t \in approvals[a].covered /\ task[t].state = "ready_for_approval"

TaskStep(t) ==
  \/ SameWork(t) /\ task'[t].state = task[t].state
  \/ SameWork(t) /\ Moves(t, {"absent", "blocked"}, "working")
  \/ SameWork(t) /\ Moves(t, {"working"}, "blocked")
  \/ /\ WorkPasses(t) /\ Moves(t, {"working"}, "integrating")
     /\ task'[t].token = task[t].token + 1
  \/ \E a \in DOMAIN approvals :
       /\ SameWork(t) /\ Decided(t, a)
       /\ \/ Accept(a) /\ task'[t].state = "completed"
          \/ Reject(a) /\ task'[t].state = "blocked"
  \/ SameWork(t) /\ RecordStaged /\ t = job.id /\ task'[t].state = "ready_for_approval"
  \/ SameWork(t) /\ RecordBlocked /\ t = job.id /\ task'[t].state = "blocked"
  \/ SameWork(t) /\ RecordIntegrated /\ t \in job.row.covered /\ task'[t].state = "completed"

LEMMA WhoMovesTasks ==
  ASSUME TypeOK, [Next]_vars
  PROVE  \A t \in Tasks : TaskStep(t)
<1> SUFFICES ASSUME NEW t \in Tasks PROVE TaskStep(t)
  OBVIOUS
<1>r. task \in [Tasks -> TaskRow] /\ task[t] \in TaskRow
  BY DEF TypeOK, TypeStore
<1>j. At("integrate", step) => job.id \in Tasks /\ job.row \in TaskRow
  BY Jobs
<1>u. ASSUME UNCHANGED task
      PROVE  TaskStep(t)
  BY <1>u DEF TaskStep, SameWork
<1>1. CASE UNCHANGED vars
  BY <1>1, <1>u DEF vars, store
<1>2. ASSUME NEW u \in Tasks, AddGoal(u) \/ Retry(u)
      PROVE  TaskStep(t)
  <2>1. task' = [task EXCEPT ![u].state = "working"] /\ task[u].state \in {"absent", "blocked"}
    BY <1>2 DEF AddGoal, Retry
  <2>2. CASE t = u
    BY <1>r, <2>1, <2>2 DEF TaskStep, SameWork, Moves, TaskRow
  <2>3. CASE t # u
    BY <1>r, <2>1, <2>3 DEF TaskStep, SameWork
  <2> QED
    BY <2>2, <2>3
<1>3. ASSUME NEW a \in DOMAIN approvals, Accept(a)
      PROVE  TaskStep(t)
  <2>1. task'[t] = IF Decided(t, a) THEN [task[t] EXCEPT !.state = "completed"] ELSE task[t]
    BY <1>3 DEF Accept, Decided
  <2>2. CASE Decided(t, a)
    BY <1>r, <1>3, <2>1, <2>2 DEF TaskStep, SameWork, TaskRow
  <2>3. CASE ~Decided(t, a)
    BY <1>r, <2>1, <2>3 DEF TaskStep, SameWork
  <2> QED
    BY <2>2, <2>3
<1>4. ASSUME NEW a \in DOMAIN approvals, Reject(a)
      PROVE  TaskStep(t)
  <2>1. task'[t] = IF Decided(t, a) THEN [task[t] EXCEPT !.state = "blocked"] ELSE task[t]
    BY <1>4 DEF Reject, Decided
  <2>2. CASE Decided(t, a)
    BY <1>r, <1>4, <2>1, <2>2 DEF TaskStep, SameWork, TaskRow
  <2>3. CASE ~Decided(t, a)
    BY <1>r, <2>1, <2>3 DEF TaskStep, SameWork
  <2> QED
    BY <2>2, <2>3
<1>5. CASE Requested
  BY <1>2, <1>3, <1>4, <1>5, <1>u DEF Requested, GoalRefused, RequestIntegration, SetPolicy,
     SetEnabled, store
<1>6. CASE Tick
  BY <1>6, <1>u DEF Tick, ReadApprovals, ReadTasks, TickEnds, Submit, store
<1>7. CASE IntegrateStarts
  <2>1. task' = [task EXCEPT ![job.id].integration_tries = job.row.integration_tries + 1]
        /\ job.id \in Tasks
    BY <1>7, <1>j DEF IntegrateStarts, At
  <2> DEFINE tries == job.row.integration_tries + 1
  <2>2. task' = [task EXCEPT ![job.id].integration_tries = tries]
    BY <2>1
  <2> HIDE DEF tries
  <2>3. /\ task'[t].token = task[t].token /\ task'[t].build_attempt = task[t].build_attempt
        /\ task'[t].state = task[t].state
    BY <1>r, <2>1, <2>2 DEF TaskRow
  <2> QED
    BY <2>3 DEF TaskStep, SameWork
<1>8. CASE RecordStaged
  <2>1. task' = [task EXCEPT ![job.id].state = "ready_for_approval"] /\ job.id \in Tasks
    BY <1>8, <1>j DEF RecordStaged, At
  <2>2. CASE t = job.id
    BY <1>r, <1>8, <2>1, <2>2 DEF TaskStep, SameWork, TaskRow
  <2>3. CASE t # job.id
    BY <1>r, <2>1, <2>3 DEF TaskStep, SameWork
  <2> QED
    BY <2>2, <2>3
<1>9. CASE RecordBlocked
  <2>1. task' = [task EXCEPT ![job.id].state = "blocked", ![job.id].phase = "build"]
        /\ job.id \in Tasks
    BY <1>9, <1>j DEF RecordBlocked, At
  <2>2. CASE t = job.id
    BY <1>r, <1>9, <2>1, <2>2 DEF TaskStep, SameWork, TaskRow
  <2>3. CASE t # job.id
    BY <1>r, <2>1, <2>3 DEF TaskStep, SameWork
  <2> QED
    BY <2>2, <2>3
<1>10. CASE Integrate
  BY <1>7, <1>8, <1>9, <1>10, <1>u DEF Integrate, IntegrateDeclines, IntegrateRecovers,
     IntegrateResumes, IntegrateRefuses, Compose, ComposeFails, MergeFails, Merge, WriteReceipt,
     store
<1>11. CASE RecordIntegrated
  <2>1. task'[t] = IF t \in job.row.covered THEN [task[t] EXCEPT !.state = "completed"]
                   ELSE task[t]
    BY <1>11 DEF RecordIntegrated
  <2>2. CASE t \in job.row.covered
    BY <1>r, <1>11, <2>1, <2>2 DEF TaskStep, SameWork, TaskRow
  <2>3. CASE t \notin job.row.covered
    BY <1>r, <2>1, <2>3 DEF TaskStep, SameWork
  <2> QED
    BY <2>2, <2>3
<1>12. CASE Publish
  BY <1>11, <1>12, <1>u DEF Publish, PublishRecovers, PublishStarts, PublishRefuses,
     PublishAdvances, PublishVerifies, RecordFailed, store
<1>13. ASSUME NEW u \in Tasks, WorkPasses(u)
       PROVE  TaskStep(t)
  <2>1. CASE t # u
    <3>1. task'[t] = task[t]
      BY <1>r, <1>13, <2>1 DEF WorkPasses
    <3> QED
      BY <3>1 DEF TaskStep, SameWork
  <2>2. CASE t = u
    <3>1. task[t].state = "working"
      BY <1>13, <2>2 DEF WorkPasses
    <3> DEFINE passed == task[t].token + 1
    <3>2. \/ \E phase \in {"build", "review"} :
               task' = [task EXCEPT ![t] = [task[t] EXCEPT !.state = "integrating",
                          !.token = passed, !.build_attempt = passed, !.phase = phase]]
          \/ task' = [task EXCEPT ![t] = [task[t] EXCEPT !.state = "integrating",
                                           !.token = passed]]
      BY <1>r, <1>13, <2>2 DEF WorkPasses, TaskRow
    <3> HIDE DEF passed
    <3>3. task'[t].state = "integrating" /\ task'[t].token = passed
      BY <1>r, <3>2 DEF TaskRow
    <3> QED
      BY <1>13, <2>2, <3>1, <3>3 DEF TaskStep, Moves, passed
  <2> QED
    BY <2>1, <2>2
<1>14. ASSUME NEW u \in Tasks, WorkStops(u)
       PROVE  TaskStep(t)
  <2>1. task' = [task EXCEPT ![u].state = "blocked"] /\ task[u].state = "working"
    BY <1>14 DEF WorkStops
  <2>2. CASE t = u
    BY <1>r, <2>1, <2>2 DEF TaskStep, SameWork, Moves, TaskRow
  <2>3. CASE t # u
    BY <1>r, <2>1, <2>3 DEF TaskStep, SameWork
  <2> QED
    BY <2>2, <2>3
<1>15. CASE OwnerCommits \/ WriteFails \/ ControllerCrash \/ ControllerRestarts
  BY <1>15, <1>u DEF OwnerCommits, WriteFails, ControllerCrash, ControllerRestarts, store
<1> QED
  BY <1>1, <1>5, <1>6, <1>10, <1>12, <1>13, <1>14, <1>15 DEF Next

\* A composition comes to nothing: nothing else changes.
CompositionFails ==
  /\ At("integrate", step) /\ Goes("fail")
  /\ \/ step = "start" /\ ~Unfit /\ (~Completed \/ "unread" \in Faults)
     \/ step = "compose" \/ step = "merge"
     \/ step = "record" /\ (Stale \/ "locked" \in Faults)
  /\ UNCHANGED <<store, git, files, result>>

LEMMA CompositionSteps ==
  ASSUME [Next]_vars, Composing'
  PROVE  \/ UNCHANGED running /\ Composing
         \/ IntegrateRecovers \/ IntegrateResumes \/ IntegrateStarts
         \/ Compose \/ Merge \/ WriteReceipt
         \/ CompositionFails
<1>1. CASE UNCHANGED vars
  BY <1>1 DEF vars, running, Composing
<1>2. CASE Requested
  BY <1>2 DEF Requested, AddGoal, GoalRefused, Retry, Accept, Reject, RequestIntegration,
     SetPolicy, SetEnabled, running, Composing
<1>3. CASE Tick
  BY <1>3 DEF Tick, ReadApprovals, ReadTasks, TickEnds, Submit, running, Composing
<1>4. CASE IntegrateRefuses \/ ComposeFails \/ MergeFails
  BY <1>4 DEF IntegrateRefuses, ComposeFails, MergeFails, CompositionFails, At, Goes
<1>5. CASE Integrate
  BY <1>4, <1>5 DEF Integrate, IntegrateDeclines, RecordStaged, RecordBlocked, EndsJob, Composing
<1>6. CASE Publish
  BY <1>6 DEF Publish, PublishRecovers, PublishStarts, PublishRefuses, PublishAdvances,
     PublishVerifies, RecordIntegrated, RecordFailed, At, Goes, EndsJob, Composing
<1>7. CASE WriteFails
  BY <1>7 DEF WriteFails, CompositionFails, At, Goes, EndsJob, Composing
<1>8. CASE OwnerCommits \/ (\E t \in Tasks : WorkPasses(t) \/ WorkStops(t))
             \/ ControllerCrash \/ ControllerRestarts
  BY <1>8 DEF OwnerCommits, WorkPasses, WorkStops, ControllerCrash,
     ControllerRestarts, EndsJob, running, Composing
<1> QED
  BY <1>1, <1>2, <1>3, <1>5, <1>6, <1>7, <1>8 DEF Next

-------------------------------------------------------------------------------
(* Nobody disturbs a composition *)

LEMMA CommitsHere ==
  ASSUME TypeOK
  PROVE  /\ main \in Commit /\ staging \in Commit /\ project.head \in Commit /\ result \in Commit
         /\ \A a \in DOMAIN approvals : approvals[a].candidate \in Commit
         /\ \A t \in Tasks : intent[t] # None => intent[t] \in Commit
<1>1. project.head \in Commit /\ \A a \in DOMAIN approvals : approvals[a].candidate \in Commit
  BY Rows DEF ProjectRow, ApprovalRow
<1> QED
  BY <1>1 DEF TypeOK, TypeGit, TypeJob, TypeFiles

\* An integrating task is nobody's to decide about.
LEMMA IntegratingIsUndecided ==
  ASSUME TypeOK, PendingApprovalsWait, NEW t \in Tasks, task[t].state = "integrating",
         NEW a \in DOMAIN approvals, Decidable(a)
  PROVE  ~Decided(t, a)
BY DEF PendingApprovalsWait, Decidable, Decided

\* While some task integrates, staging does not follow main.
LEMMA IntegratingIsBusy ==
  ASSUME NEW t \in Tasks, task[t].state = "integrating"
  PROVE  ~FollowsMain
BY DEF FollowsMain, Behind, Busy

LEMMA CompositionUndisturbed ==
  ASSUME TypeOK, CompositionIsAlone, PendingApprovalsWait, [Next]_vars, Composing,
         UNCHANGED running
  PROVE  /\ project'.head = project.head /\ UNCHANGED staging
         /\ intent'[job.id] = intent[job.id]
         /\ task'[job.id].state = "integrating" /\ task'[job.id].token = job.row.token
<1>1. job # None /\ job' = job /\ step' = step /\ job.kind = "integrate"
  BY DEF Composing, running
<1>2. /\ job.id \in Tasks
      /\ task[job.id].state = "integrating" /\ task[job.id].token = job.row.token
  <2>1. At("integrate", step)
    BY <1>1 DEF At
  <2> QED
    BY <2>1, Jobs DEF CompositionIsAlone, Stale
<1>3. ~RecordStaged /\ ~RecordBlocked /\ ~RecordIntegrated /\ ~Compose /\ ~Merge
  <2>1. ~RecordStaged /\ ~RecordBlocked /\ ~RecordIntegrated
    BY <1>1 DEF RecordStaged, RecordBlocked, RecordIntegrated, EndsJob
  <2>2. ~Compose /\ ~Merge
    BY <1>1 DEF Compose, Merge, Goes, At
  <2> QED
    BY <2>1, <2>2
<1>4. ~FollowsMain
  BY <1>2, IntegratingIsBusy
<1>5. UNCHANGED staging /\ project'.head = project.head
  BY <1>3, <1>4, WhoMovesStaging, WhoMovesHead
<1>6. intent'[job.id] = intent[job.id]
  <2>1. ASSUME NEW t \in Tasks, WorkPasses(t), intent' = [intent EXCEPT ![t] = None]
        PROVE  intent'[job.id] = intent[job.id]
    <3>1. t # job.id
      BY <1>2, <2>1 DEF WorkPasses
    <3> QED
      BY <1>2, <2>1, <3>1 DEF TypeOK, TypeFiles
  <2> QED
    BY <1>3, <2>1, WhoWritesIntents
<1>7. SameWork(job.id) /\ task'[job.id].state = task[job.id].state
  <2>1. \A a \in DOMAIN approvals : (Accept(a) \/ Reject(a)) => ~Decided(job.id, a)
    BY <1>2, IntegratingIsUndecided DEF Accept, Reject
  <2> QED
    BY <1>2, <1>3, <2>1, WhoMovesTasks DEF TaskStep, Moves
<1> QED
  BY <1>2, <1>5, <1>6, <1>7 DEF SameWork

LEMMA CompositionStaysAlone ==
  ASSUME CompositionInvariant, [Next]_vars
  PROVE  CompositionIsAlone'
<1> SUFFICES ASSUME Composing'
             PROVE  /\ ~Stale'
                    /\ step' = "compose" => result' = project'.head /\ staging' = project'.head
                    /\ step' = "merge" => /\ intent'[job'.id] = result'
                                          /\ Front(result') = project'.head
                                          /\ staging' = project'.head
                    /\ step' \in {"receipt", "record"} =>
                         intent'[job'.id] = result' /\ staging' = result'
  BY DEF CompositionIsAlone
<1>t. /\ TypeOK /\ CompositionIsAlone /\ PendingApprovalsWait /\ CommitsAreOrdered
      /\ IntentsExtendHead
  BY DEF CompositionInvariant, PublicationInvariant
<1>c. /\ staging \in Commit /\ project.head \in Commit /\ result \in Commit
      /\ \A t \in Tasks : intent[t] # None => intent[t] \in Commit
  BY <1>t, CommitsHere
<1>j. At("integrate", step) => job.id \in Tasks /\ job.row \in TaskRow
  BY <1>t, Jobs
<1>f. ASSUME At("integrate", step), step = "start" => ~Unfit
      PROVE  task[job.id].state = "integrating" /\ task[job.id].token = job.row.token
  BY <1>t, <1>f DEF CompositionIsAlone, Composing, At, Unfit, Stale
<1>1. CASE UNCHANGED running /\ Composing
  <2>1. /\ project'.head = project.head /\ UNCHANGED staging
        /\ intent'[job.id] = intent[job.id]
        /\ task'[job.id].state = "integrating" /\ task'[job.id].token = job.row.token
    BY <1>1, <1>t, CompositionUndisturbed
  <2>2. job' = job /\ step' = step /\ result' = result
    BY <1>1 DEF running
  <2> QED
    BY <1>t, <1>1, <2>1, <2>2 DEF CompositionIsAlone, Stale
<1>2. CASE IntegrateRecovers
  <2>1. At("integrate", step) /\ ~Unfit /\ Completed /\ step = "start"
    BY <1>2 DEF IntegrateRecovers, At
  <2>2. /\ result' = intent[job.id] /\ job' = job /\ step' = "receipt"
        /\ UNCHANGED <<task, project, staging, intent>>
    BY <1>2 DEF IntegrateRecovers, Goes, Saved, store, git, files
  <2>3. staging = intent[job.id]
    BY <2>1 DEF Completed, Saved
  <2> QED
    BY <1>f, <2>1, <2>2, <2>3 DEF Stale
<1>3. CASE IntegrateResumes
  <2>1. At("integrate", step) /\ ~Unfit /\ Prepared /\ step = "start"
    BY <1>3 DEF IntegrateResumes, At
  <2>2. /\ result' = intent[job.id] /\ job' = job /\ step' = "merge"
        /\ UNCHANGED <<task, project, staging, intent>>
    BY <1>3 DEF IntegrateResumes, Goes, Saved, store, git, files
  <2>3. staging = Front(intent[job.id]) /\ intent[job.id] # None
    BY <2>1 DEF Prepared, Saved
  <2>4. IsPrefix(staging, project.head) /\ IsPrefix(project.head, staging)
    BY <1>j, <1>t, <2>1, <2>3 DEF IntentsExtendHead, CommitsAreOrdered
  <2>5. staging = project.head
    BY <1>c, <2>4, PrefixAntisymmetric, PrefixElements
  <2> QED
    BY <1>f, <2>1, <2>2, <2>3, <2>5 DEF Stale
<1>4. CASE IntegrateStarts
  <2>1. At("integrate", step) /\ ~Unfit /\ Composable /\ step = "start"
    BY <1>4 DEF IntegrateStarts, At
  <2>2. result' = staging /\ job' = job /\ step' = "compose" /\ UNCHANGED <<project, staging>>
    BY <1>4 DEF IntegrateStarts, Goes, git
  <2>3. staging = project.head
    BY <2>1 DEF Composable
  <2>4. task'[job.id].state = task[job.id].state /\ task'[job.id].token = task[job.id].token
    <3>1. TaskStep(job.id)
      BY <1>j, <1>t, <2>1, WhoMovesTasks
    <3>2. ~RecordStaged /\ ~RecordBlocked /\ ~RecordIntegrated
      BY <2>1 DEF RecordStaged, RecordBlocked, RecordIntegrated, At
    <3>3. task[job.id].state = "integrating" /\ job.id \in Tasks
      BY <1>f, <1>j, <2>1
    <3>4. \A a \in DOMAIN approvals : (Accept(a) \/ Reject(a)) => ~Decided(job.id, a)
      BY <1>t, <3>3, IntegratingIsUndecided DEF Accept, Reject
    <3> QED
      BY <3>1, <3>2, <3>3, <3>4 DEF TaskStep, Moves, SameWork
  <2> QED
    BY <1>f, <2>1, <2>2, <2>3, <2>4 DEF Stale
<1>5. CASE Compose
  <2>1. At("integrate", step) /\ step = "compose"
    BY <1>5 DEF Compose, At
  <2> DEFINE change == [by |-> job.id, build |-> job.row.build_attempt,
                        token |-> job.row.token]
  <2>2. /\ result' = Append(result, change)
        /\ intent' = [intent EXCEPT ![job.id] = result']
        /\ job' = job /\ step' = "merge" /\ UNCHANGED <<task, project, staging>>
    BY <1>5 DEF Compose, IntentWritten, Goes, store, git
  <2>3. change \in Change /\ job.id \in Tasks
    BY <1>j, <2>1 DEF Change, TaskRow
  <2>4. result = project.head /\ staging = project.head
    BY <1>t, <2>1 DEF CompositionIsAlone, Composing, At
  <2>5. Front(result') = result
    <3> HIDE DEF change
    <3> QED
      BY <1>c, <2>2, <2>3, AppendToCommit
  <2>6. intent'[job.id] = result'
    BY <1>t, <2>2, <2>3 DEF TypeOK, TypeFiles
  <2> QED
    BY <1>f, <2>1, <2>2, <2>4, <2>5, <2>6 DEF Stale
<1>6. CASE Merge
  <2>1. At("integrate", step) /\ step = "merge"
    BY <1>6 DEF Merge, At
  <2>2. /\ result' = result /\ job' = job /\ UNCHANGED <<task, project, intent>>
        /\ staging' = FastForwarded(result)
    BY <1>6 DEF Merge, Goes, store, files
  <2>3. intent[job.id] = result /\ Front(result) = staging /\ job.id \in Tasks
    BY <1>j, <1>t, <2>1 DEF CompositionIsAlone, Composing, At
  <2>4. result # <<>>
    BY <1>t, <1>c, <2>3, StagingAssumption DEF IntentsExtendHead
  <2>5. IsPrefix(staging, result)
    BY <1>c, <2>3, <2>4, FrontOfCommit
  <2>6. staging' = result
    BY <2>2, <2>5 DEF FastForwarded
  <2>7. step' \in {"receipt", "fail"}
    BY <1>6 DEF Merge, Goes
  <2> QED
    BY <1>f, <2>1, <2>2, <2>3, <2>6, <2>7 DEF Stale
<1>7. CASE WriteReceipt
  <2>1. At("integrate", step) /\ step = "receipt"
    BY <1>7 DEF WriteReceipt, At
  <2>2. /\ result' = result /\ job' = job /\ step' = "record"
        /\ UNCHANGED <<task, project, intent, staging>>
    BY <1>7 DEF WriteReceipt, Goes, store, git
  <2>3. intent[job.id] = result /\ staging = result
    BY <1>t, <2>1 DEF CompositionIsAlone, Composing, At
  <2> QED
    BY <1>f, <2>1, <2>2, <2>3 DEF Stale
<1>8. CASE CompositionFails
  <2>1. /\ At("integrate", step)
        /\ step = "start" => ~Unfit
        /\ job' = job /\ step' = "fail" /\ UNCHANGED task
    BY <1>8 DEF CompositionFails, Goes, store
  <2> QED
    BY <1>f, <2>1 DEF Stale
<1> QED
  BY <1>1, <1>2, <1>3, <1>4, <1>5, <1>6, <1>7, <1>8, CompositionSteps

-------------------------------------------------------------------------------
(* Staging, the head and the candidates *)

\* What an approval is about never changes, and none becomes pending that was not made so.
SameApproval(a) ==
  /\ a \in DOMAIN approvals
  /\ approvals'[a].task = approvals[a].task
  /\ approvals'[a].candidate = approvals[a].candidate
  /\ approvals'[a].covered = approvals[a].covered
  /\ approvals'[a].state = "pending" => approvals[a].state = "pending"
AddedApproval(a) ==
  /\ RecordStaged
  /\ a = Len(approvals) + 1 /\ a \notin DOMAIN approvals
  /\ approvals'[a] = Approval

LEMMA ApprovalsAfter ==
  ASSUME TypeOK, [Next]_vars
  PROVE  /\ DOMAIN approvals \subseteq DOMAIN approvals'
         /\ \A a \in DOMAIN approvals' : SameApproval(a) \/ AddedApproval(a)
<1>r. \A a \in DOMAIN approvals : approvals[a] \in ApprovalRow
  BY Rows
<1>1. CASE UNCHANGED approvals
  BY <1>1 DEF SameApproval
<1>2. ASSUME NEW a \in DOMAIN approvals, Accept(a) \/ Reject(a) \/ RequestIntegration(a)
      PROVE  /\ DOMAIN approvals' = DOMAIN approvals
             /\ \A b \in DOMAIN approvals' : SameApproval(b)
  BY <1>r, <1>2 DEF Accept, Reject, RequestIntegration, SameApproval, ApprovalRow
<1>3. CASE RecordStaged
  <2>1. /\ DOMAIN approvals' = DOMAIN approvals \cup {Len(approvals) + 1}
        /\ Len(approvals) + 1 \notin DOMAIN approvals
        /\ approvals'[Len(approvals) + 1] = Approval
        /\ \A a \in DOMAIN approvals :
             \/ approvals'[a] = approvals[a]
             \/ /\ approvals[a].state = "pending"
                /\ approvals'[a] = [approvals[a] EXCEPT !.state = "superseded"]
    BY <1>3, NewApproval
  <2>2. AddedApproval(Len(approvals) + 1)
    BY <1>3, <2>1 DEF AddedApproval
  <2>3. \A a \in DOMAIN approvals : SameApproval(a)
    BY <1>r, <2>1 DEF SameApproval, ApprovalRow
  <2> QED
    BY <2>1, <2>2, <2>3
<1>4. CASE RecordIntegrated \/ RecordFailed
  BY <1>r, <1>4 DEF RecordIntegrated, RecordFailed, Concluded, SameApproval, ApprovalRow
<1> QED
  BY <1>1, <1>2, <1>3, <1>4, WhoWritesApprovals

\* The new approval replaces every pending one of a task it speaks for.
LEMMA PendingIsSuperseded ==
  ASSUME TypeOK, RecordStaged, NEW a \in DOMAIN approvals, approvals'[a].state = "pending"
  PROVE  approvals[a].task \notin Covered
<1>1. \A b \in DOMAIN approvals : approvals[b] \in ApprovalRow
  BY Rows
<1> DEFINE superseding == [b \in DOMAIN approvals |->
                             IF approvals[b].task \in Covered /\ approvals[b].state = "pending"
                             THEN [approvals[b] EXCEPT !.state = "superseded"]
                             ELSE approvals[b]]
<1>2. approvals' = Append(superseding, Approval)
  BY DEF RecordStaged
<1>3. superseding \in Seq(ApprovalRow) /\ Len(superseding) = Len(approvals)
  <2>1. \A b \in DOMAIN approvals : superseding[b] \in ApprovalRow
    BY <1>1 DEF ApprovalRow
  <2>2. approvals \in Seq(ApprovalRow)
    BY DEF TypeOK, TypeStore
  <2>3. DOMAIN superseding = DOMAIN approvals
        /\ superseding = [b \in DOMAIN approvals |-> superseding[b]]
    OBVIOUS
  <2> QED
    BY <2>1, <2>2, <2>3, ReplacedRows
<1>4. superseding[a].state = "pending" => approvals[a].task \notin Covered
  BY <1>1 DEF ApprovalRow
<1>5. approvals'[a] = superseding[a]
  <2>1. Len(approvals) \in Nat /\ DOMAIN approvals = 1..Len(approvals)
    BY Rows
  <2> HIDE DEF superseding
  <2> QED
    BY <1>2, <1>3, <2>1
<1> QED
  BY <1>4, <1>5

\* Staging is moved forward only.  An integration moves it by one commit.
LEMMA StagingGrows ==
  ASSUME CompositionInvariant, [Next]_vars
  PROVE  /\ IsPrefix(staging, staging') /\ staging' \in Commit
         /\ Merge => staging' = result /\ intent[job.id] = result /\ job.id \in Tasks
         /\ FollowsMain => IsPrefix(main, staging')
<1>t. TypeOK /\ TypeOK' /\ CompositionIsAlone /\ IntentsExtendHead
  BY StepsKeepTypes DEF CompositionInvariant, PublicationInvariant, TypeStep
<1>c. /\ staging \in Commit /\ staging' \in Commit /\ main \in Commit /\ result \in Commit
      /\ IsPrefix(staging, staging) /\ IsPrefix(main, main)
  BY <1>t, PrefixReflexive DEF TypeOK, TypeGit, TypeJob, Commit
<1>1. CASE UNCHANGED staging
  <2>1. ~FollowsMain \/ IsPrefix(main, staging')
    BY <1>1, <1>c DEF FollowsMain, FastForwarded, Related
  <2>2. Merge => staging' = result /\ intent[job.id] = result /\ job.id \in Tasks
    <3> SUFFICES ASSUME Merge
                 PROVE  staging' = result /\ intent[job.id] = result /\ job.id \in Tasks
      OBVIOUS
    <3>1. /\ At("integrate", step) /\ step = "merge" /\ staging' = FastForwarded(result)
      BY DEF Merge, At
    <3>2. intent[job.id] = result /\ Front(result) = staging /\ job.id \in Tasks
      BY <1>t, <3>1, Jobs DEF CompositionIsAlone, Composing, At
    <3>3. result # <<>>
      BY <1>t, <1>c, <3>2, StagingAssumption DEF IntentsExtendHead
    <3>4. IsPrefix(staging, result)
      BY <1>c, <3>2, <3>3, FrontOfCommit
    <3> QED
      BY <3>1, <3>2, <3>4 DEF FastForwarded
  <2> QED
    BY <1>1, <1>c, <2>1, <2>2
<1>2. CASE FollowsMain
  <2>1. IsPrefix(staging, staging') /\ IsPrefix(main, staging')
    BY <1>2, <1>c DEF FollowsMain, FastForwarded, Related
  <2>2. ~Merge
    <3>1. ASSUME Merge PROVE FALSE
      <4>1. Composing /\ At("integrate", step)
        BY <3>1 DEF Merge, At, Composing
      <4>2. job.id \in Tasks /\ task[job.id].state = "integrating"
        BY <1>t, <4>1, Jobs DEF CompositionIsAlone, Stale
      <4> QED
        BY <1>2, <4>2, IntegratingIsBusy
    <3> QED
      BY <3>1
  <2> QED
    BY <1>c, <2>1, <2>2
<1>3. CASE Merge
  <2>1. /\ At("integrate", step) /\ step = "merge" /\ staging' = FastForwarded(result)
    BY <1>3 DEF Merge, At
  <2>2. /\ intent[job.id] = result /\ Front(result) = staging /\ job.id \in Tasks
        /\ task[job.id].state = "integrating"
    BY <1>t, <2>1, Jobs DEF CompositionIsAlone, Composing, At, Stale
  <2>3. result # <<>>
    BY <1>t, <1>c, <2>2, StagingAssumption DEF IntentsExtendHead
  <2>4. IsPrefix(staging, result)
    BY <1>c, <2>2, <2>3, FrontOfCommit
  <2>5. ~FollowsMain
    BY <2>2, IntegratingIsBusy
  <2> QED
    BY <1>c, <2>1, <2>2, <2>4, <2>5 DEF FastForwarded
<1> QED
  BY <1>1, <1>2, <1>3, WhoMovesStaging

\* What is recorded is what the composition announced, and staging is there.
LEMMA WhatIsRecorded ==
  ASSUME CompositionInvariant, RecordStaged
  PROVE  /\ job.id \in Tasks /\ result \in Commit
         /\ task[job.id].state = "integrating" /\ task[job.id].token = job.row.token
         /\ intent[job.id] = result /\ staging = result /\ UNCHANGED staging
         /\ result # <<>> /\ Front(result) \in Commit /\ IsPrefix(Front(result), project.head)
         /\ Last(result).by = job.id /\ Last(result).build = task[job.id].build_attempt
<1>t. TypeOK /\ CompositionIsAlone /\ IntentsExtendHead
  BY DEF CompositionInvariant, PublicationInvariant
<1>1. At("integrate", step) /\ step = "record" /\ UNCHANGED staging
  BY DEF RecordStaged, At, git
<1>2. Composing
  BY <1>1 DEF Composing, At
<1>3. /\ job.id \in Tasks /\ intent[job.id] = result /\ staging = result
      /\ task[job.id].state = "integrating" /\ task[job.id].token = job.row.token
  BY <1>t, <1>1, <1>2, Jobs DEF CompositionIsAlone, Stale
<1>4. result \in Commit
  BY <1>t, CommitsHere
<1>5. intent[job.id] # None
  BY <1>3, <1>4, StagingAssumption
<1>6. /\ result # <<>> /\ IsPrefix(Front(result), project.head)
      /\ Last(result).by = job.id /\ Last(result).build = task[job.id].build_attempt
  BY <1>t, <1>3, <1>5 DEF IntentsExtendHead
<1> QED
  BY <1>1, <1>3, <1>4, <1>6, FrontOfCommit

LEMMA HeadGrows ==
  ASSUME CompositionInvariant, [Next]_vars
  PROVE  /\ IsPrefix(project.head, project'.head)
         /\ project.head \in Commit /\ project'.head \in Commit
         /\ IsPrefix(project'.head, staging')
<1>t. TypeOK /\ TypeOK' /\ CommitsAreOrdered
  BY StepsKeepTypes DEF CompositionInvariant, PublicationInvariant, TypeStep
<1>c. /\ staging \in Commit /\ staging' \in Commit /\ main \in Commit /\ result \in Commit
      /\ project.head \in Commit /\ project'.head \in Commit
  <2>1. project'.head \in Commit
    BY <1>t DEF TypeOK, TypeStore, ProjectRow
  <2>2. staging' \in Commit
    BY <1>t DEF TypeOK, TypeGit
  <2> QED
    BY <1>t, <2>1, <2>2, CommitsHere
<1>1. CASE project'.head = project.head
  <2>1. IsPrefix(project.head, staging) /\ IsPrefix(staging, staging')
    BY <1>t, StagingGrows DEF CommitsAreOrdered
  <2>2. IsPrefix(project.head, project.head)
    BY <1>c, PrefixReflexive DEF Commit
  <2> QED
    BY <1>1, <1>c, <2>1, <2>2, PrefixTransitive DEF Commit
<1>2. CASE FollowsMain /\ project'.head = main
  <2>1. IsPrefix(project.head, main)
    BY <1>2 DEF FollowsMain, Behind
  <2> QED
    BY <1>2, <1>c, <2>1, StagingGrows
<1>3. CASE RecordStaged /\ project'.head = result
  <2>1. IsPrefix(project.head, staging) /\ staging = result /\ UNCHANGED staging
    BY <1>3, <1>t, WhatIsRecorded DEF CommitsAreOrdered
  <2>2. IsPrefix(result, result)
    BY <1>c, PrefixReflexive DEF Commit
  <2> QED
    BY <1>3, <1>c, <2>1, <2>2
<1> QED
  BY <1>t, <1>1, <1>2, <1>3, WhoMovesHead

LEMMA CommitsStayOrdered ==
  ASSUME CompositionInvariant, [Next]_vars
  PROVE  CommitsAreOrdered'
<1>t. TypeOK /\ TypeOK' /\ CommitsAreOrdered
  BY StepsKeepTypes DEF CompositionInvariant, PublicationInvariant, TypeStep
<1>h. /\ IsPrefix(project.head, project'.head) /\ IsPrefix(project'.head, staging')
      /\ project.head \in Commit /\ project'.head \in Commit
  BY HeadGrows
<1> SUFFICES ASSUME NEW a \in DOMAIN approvals'
             PROVE  IsPrefix(approvals'[a].candidate, project'.head)
  BY <1>h DEF CommitsAreOrdered
<1>1. CASE SameApproval(a)
  <2>1. IsPrefix(approvals[a].candidate, project.head) /\ approvals[a].candidate \in Commit
    BY <1>1, <1>t, CommitsHere DEF SameApproval, CommitsAreOrdered
  <2> QED
    BY <1>1, <1>h, <2>1, PrefixTransitive DEF SameApproval, Commit
<1>2. CASE AddedApproval(a)
  <2>1. approvals'[a].candidate = result /\ project'.head = result
    <3>1. project \in ProjectRow
      BY <1>t, Rows
    <3> QED
      BY <1>2, <3>1 DEF AddedApproval, Approval, RecordStaged, ProjectRow
  <2> QED
    BY <1>h, <2>1, PrefixReflexive DEF Commit
<1> QED
  BY <1>t, <1>1, <1>2, ApprovalsAfter

-------------------------------------------------------------------------------
(* Candidates, intents and rows *)

LEMMA CandidatesKeepTheirWork ==
  ASSUME CompositionInvariant, [Next]_vars
  PROVE  CandidatesHaveTheirWork'
<1>t. /\ TypeOK /\ CandidatesHaveTheirWork /\ CommitsAreOrdered /\ StagedWorkStays
  BY DEF CompositionInvariant, PublicationInvariant
<1> SUFFICES ASSUME NEW a \in DOMAIN approvals'
             PROVE  /\ approvals'[a].candidate # <<>>
                    /\ Last(approvals'[a].candidate).by = approvals'[a].task
                    /\ approvals'[a].task \in approvals'[a].covered
                    /\ \A t \in approvals'[a].covered : Built(t, approvals'[a].candidate)
  BY DEF CandidatesHaveTheirWork, Built
<1>1. CASE SameApproval(a)
  BY <1>1, <1>t DEF SameApproval, CandidatesHaveTheirWork
<1>2. CASE AddedApproval(a)
  <2>1. /\ approvals'[a].candidate = result /\ approvals'[a].task = job.id
        /\ approvals'[a].covered = Covered /\ RecordStaged
    BY <1>2 DEF AddedApproval, Approval
  <2>2. /\ result \in Commit /\ result # <<>> /\ Last(result).by = job.id /\ staging = result
    BY <2>1, WhatIsRecorded
  <2>3. Built(job.id, result)
    BY <2>2, FrontOfCommit DEF Built
  <2>4. ASSUME NEW t \in Tasks, task[t].state = "ready_for_approval"
        PROVE  Built(t, result)
    <3>1. Composes(t, project.head)
      BY <1>t, <2>4 DEF StagedWorkStays
    <3>2. Built(t, project.head)
      BY <3>1 DEF Composes, Built
    <3>3. IsPrefix(project.head, result) /\ project.head \in Commit
      BY <1>t, <2>2, CommitsHere DEF CommitsAreOrdered
    <3> QED
      BY <2>2, <3>2, <3>3, DescendantsKeepWork
  <2> QED
    BY <2>1, <2>2, <2>3, <2>4 DEF Covered
<1> QED
  BY <1>t, <1>1, <1>2, ApprovalsAfter

LEMMA WhatTasksComeUnderway ==
  ASSUME TypeOK, [Next]_vars, NEW o \in Underway', o.kind = "integrate"
  PROVE  o \in Underway \/ (o.id \in Tasks /\ o.row = task[o.id] /\ UNCHANGED task)
<1>1. CASE UNCHANGED vars
  BY <1>1 DEF vars, tick, running, Underway
<1>2. CASE Requested
  BY <1>2 DEF Requested, AddGoal, GoalRefused, Retry, Accept, Reject, RequestIntegration,
     SetPolicy, SetEnabled, tick, running, Underway
<1>3. CASE ReadApprovals
  BY <1>3 DEF ReadApprovals, running, Underway
<1>4. CASE ReadTasks
  BY <1>4 DEF ReadTasks, ToIntegrate, running, Underway, store
<1>5. CASE Tick
  BY <1>3, <1>4, <1>5 DEF Tick, TickEnds, Submit, running, Underway
<1>6. CASE Integrate
  BY <1>6 DEF Integrate, IntegrateDeclines, IntegrateRecovers, IntegrateResumes, IntegrateStarts,
     IntegrateRefuses, Compose, ComposeFails, MergeFails, Merge, WriteReceipt, RecordStaged,
     RecordBlocked,
     Goes, EndsJob, tick, Underway
<1>7. CASE Publish
  BY <1>7 DEF Publish, PublishRecovers, PublishStarts, PublishRefuses, PublishAdvances,
     PublishVerifies, RecordIntegrated, RecordFailed, Goes, EndsJob, tick, Underway
<1>8. CASE OwnerCommits \/ (\E t \in Tasks : WorkPasses(t) \/ WorkStops(t))
             \/ WriteFails \/ ControllerCrash \/ ControllerRestarts
  BY <1>8 DEF OwnerCommits, WorkPasses, WorkStops, WriteFails, ControllerCrash,
     ControllerRestarts, Goes, EndsJob, tick, running, Underway
<1> QED
  BY <1>1, <1>2, <1>5, <1>6, <1>7, <1>8 DEF Next

LEMMA UnderwayTypes ==
  ASSUME TypeOK, NEW o \in Underway
  PROVE  /\ o.kind = "integrate" => o.id \in Tasks /\ o.row \in TaskRow
         /\ o.kind = "publish" => o.id \in DOMAIN approvals /\ o.row \in ApprovalRow
         /\ o.kind \in {"integrate", "publish"}
BY DEF TypeOK, TypeTick, TypeJob, Underway, Composition, Publication

LEMMA RowsAreStillOwn ==
  ASSUME CompositionInvariant, [Next]_vars
  PROVE  RowsStayOwn'
<1>t. TypeOK /\ TypeOK' /\ RowsStayOwn
  BY StepsKeepTypes DEF CompositionInvariant, PublicationInvariant, TypeStep
<1>1. ASSUME NEW o \in Underway', o.kind = "integrate"
      PROVE  /\ o.row.token <= task'[o.id].token
             /\ o.row.token = task'[o.id].token =>
                  o.row.build_attempt = task'[o.id].build_attempt
  <2>1. CASE o \in Underway
    <3>1. /\ o.id \in Tasks /\ o.row.token \in Nat /\ task[o.id].token \in Nat
          /\ o.row.token <= task[o.id].token
          /\ o.row.token = task[o.id].token => o.row.build_attempt = task[o.id].build_attempt
      BY <1>1, <1>t, <2>1, UnderwayTypes, Rows DEF RowsStayOwn, TaskRow
    <3>2. SameWork(o.id) \/ task'[o.id].token = task[o.id].token + 1
      BY <1>t, <3>1, WhoMovesTasks DEF TaskStep
    <3> QED
      BY <3>1, <3>2 DEF SameWork
  <2>2. CASE o.id \in Tasks /\ o.row = task[o.id] /\ UNCHANGED task
    <3>1. task[o.id].token \in Nat
      BY <1>t, <2>2, Rows DEF TaskRow
    <3> QED
      BY <2>2, <3>1
  <2> QED
    BY <1>t, <1>1, <2>1, <2>2, WhatTasksComeUnderway
<1>2. ASSUME NEW o \in Underway', o.kind = "publish"
      PROVE  o.row.covered = approvals'[o.id].covered
  <2>1. CASE o \in Underway
    <3>1. o.id \in DOMAIN approvals /\ o.row.covered = approvals[o.id].covered
      BY <1>2, <1>t, <2>1, UnderwayTypes DEF RowsStayOwn
    <3>2. o.id \in DOMAIN approvals' /\ SameApproval(o.id)
      BY <1>t, <3>1, ApprovalsAfter DEF AddedApproval
    <3> QED
      BY <3>1, <3>2 DEF SameApproval
  <2>2. ASSUME ReadApprovals, NEW a \in DOMAIN approvals, o.id = a, o.row = approvals[a]
        PROVE  o.row.covered = approvals'[o.id].covered
    BY <2>2 DEF ReadApprovals, store
  <2> QED
    BY <1>2, <2>1, <2>2, WhatComesUnderway
<1> QED
  BY <1>1, <1>2 DEF RowsStayOwn

LEMMA IntentsStillExtendHead ==
  ASSUME CompositionInvariant, [Next]_vars
  PROVE  IntentsExtendHead'
<1>t. /\ TypeOK /\ TypeOK' /\ IntentsExtendHead /\ RowsStayOwn /\ CompositionIsAlone
  BY StepsKeepTypes DEF CompositionInvariant, PublicationInvariant, TypeStep
<1>h. IsPrefix(project.head, project'.head) /\ project.head \in Commit /\ project'.head \in Commit
  BY HeadGrows
<1>i. intent \in [Tasks -> Commit \cup {None}]
  BY <1>t DEF TypeOK, TypeFiles
<1> SUFFICES ASSUME NEW t \in Tasks, intent'[t] # None
             PROVE  /\ intent'[t] # <<>>
                    /\ Last(intent'[t]).by = t
                    /\ Last(intent'[t]).build = task'[t].build_attempt
                    /\ IsPrefix(Front(intent'[t]), project'.head)
  BY DEF IntentsExtendHead
<1>1. CASE intent'[t] = intent[t]
  <2>1. /\ intent[t] # <<>> /\ intent[t] \in Commit
        /\ Last(intent[t]).by = t /\ Last(intent[t]).build = task[t].build_attempt
        /\ IsPrefix(Front(intent[t]), project.head)
    BY <1>1, <1>i, <1>t DEF IntentsExtendHead
  <2>2. IsPrefix(Front(intent[t]), project'.head)
    BY <1>h, <2>1, FrontOfCommit, PrefixTransitive DEF Commit
  <2>3. task'[t].build_attempt = task[t].build_attempt
    <3>1. CASE WorkPasses(t)
      <4>1. task[t].phase = "review"
        BY <1>1, <1>i, <3>1 DEF WorkPasses
      <4>2. task' = [task EXCEPT ![t].state = "integrating", ![t].token = @ + 1]
        BY <3>1, <4>1 DEF WorkPasses
      <4> QED
        BY <1>t, <4>2 DEF TypeOK, TypeStore, TaskRow
    <3>2. CASE SameWork(t)
      BY <3>2 DEF SameWork
    <3> QED
      BY <1>t, <3>1, <3>2, WhoMovesTasks DEF TaskStep
  <2> QED
    BY <1>1, <2>1, <2>2, <2>3
<1>2. CASE Compose /\ t = job.id
  <2>1. At("integrate", step) /\ step = "compose" /\ Composing
    BY <1>2 DEF Compose, At, Composing
  <2> DEFINE change == [by |-> job.id, build |-> job.row.build_attempt,
                        token |-> job.row.token]
  <2>2. /\ result' = Append(result, change)
        /\ intent' = [intent EXCEPT ![job.id] = result'] /\ UNCHANGED task
    BY <1>2 DEF Compose, IntentWritten, store
  <2>3. change \in Change /\ job.id \in Tasks /\ job.row \in TaskRow
    BY <1>t, <2>1, Jobs DEF Change, TaskRow
  <2>4. result = project.head /\ task[job.id].token = job.row.token
    BY <1>t, <2>1 DEF CompositionIsAlone, Stale
  <2>5. job.row.build_attempt = task[job.id].build_attempt
    BY <1>t, <2>1, <2>4 DEF RowsStayOwn, Underway, At
  <2>6. intent'[t] = Append(project.head, change)
    BY <1>2, <1>i, <2>2, <2>3, <2>4
  <2>7. change.by = job.id /\ change.build = job.row.build_attempt
    OBVIOUS
  <2> HIDE DEF change
  <2>8. /\ intent'[t] # <<>> /\ Front(intent'[t]) = project.head /\ Last(intent'[t]) = change
    BY <1>h, <2>3, <2>6, AppendToCommit
  <2> QED
    BY <1>2, <1>h, <2>2, <2>5, <2>7, <2>8
<1> QED
  <2>1. ASSUME Compose PROVE intent'[t] = intent[t] \/ t = job.id
    BY <1>i, <2>1 DEF Compose, IntentWritten
  <2>2. ASSUME NEW u \in Tasks, intent' = [intent EXCEPT ![u] = None]
        PROVE  intent'[t] = intent[t]
    BY <1>i, <2>2
  <2> QED
    BY <1>t, <1>1, <1>2, <2>1, <2>2, WhoWritesIntents

-------------------------------------------------------------------------------
(* Approvals that wait *)

\* No approval newer than one that can be decided is about: each would have a longer candidate.
LEMMA DecidableIsNewest ==
  ASSUME CompositionInvariant, NEW a \in DOMAIN approvals, Decidable(a),
         NEW b \in DOMAIN approvals
  PROVE  ~(a < b)
<1>t. TypeOK /\ CommitsAreOrdered /\ PendingApprovalsWait
  BY DEF CompositionInvariant, PublicationInvariant
<1>1. approvals[a].state = "pending" /\ approvals[a].candidate = project.head
  BY DEF Decidable
<1>2. /\ approvals[b].candidate \in Commit /\ approvals[a].candidate \in Commit
      /\ IsPrefix(approvals[b].candidate, approvals[a].candidate)
  BY <1>1, <1>t, CommitsHere DEF CommitsAreOrdered
<1>3. Len(approvals[b].candidate) <= Len(approvals[a].candidate)
  BY <1>2, PrefixElements
<1>4. Len(approvals[b].candidate) \in Nat /\ Len(approvals[a].candidate) \in Nat
  BY <1>2, CommitBasics
<1>5. a < b => Len(approvals[a].candidate) < Len(approvals[b].candidate)
  BY <1>1, <1>t DEF PendingApprovalsWait
<1> QED
  BY <1>3, <1>4, <1>5

\* The task a composition works on integrates.
LEMMA ComposedTaskIntegrates ==
  ASSUME CompositionInvariant, Compose \/ Merge \/ RecordStaged \/ RecordBlocked
  PROVE  job.id \in Tasks /\ task[job.id].state = "integrating"
<1>t. TypeOK /\ CompositionIsAlone
  BY DEF CompositionInvariant, PublicationInvariant
<1>1. At("integrate", step) /\ step # "start"
  BY DEF Compose, Merge, RecordStaged, RecordBlocked, At
<1>2. Composing
  BY <1>1 DEF Composing, At
<1> QED
  BY <1>t, <1>1, <1>2, Jobs DEF CompositionIsAlone, Stale

\* Nothing but a decision about it moves a task an approval waits with.
LEMMA WaitingTasksStay ==
  ASSUME CompositionInvariant, [Next]_vars,
         NEW a \in DOMAIN approvals, approvals[a].state = "pending",
         approvals'[a].state = "pending"
  PROVE  LET t == approvals[a].task IN
         /\ t \in Tasks
         /\ task'[t].state \in {"ready_for_approval", "completed"}
         /\ task[t].state = "completed" => task'[t].state = "completed"
         /\ intent'[t] = intent[t]
<1> DEFINE t == approvals[a].task
<1>t. TypeOK /\ PendingApprovalsWait
  BY DEF CompositionInvariant, PublicationInvariant
<1>1. t \in Tasks /\ approvals[a] \in ApprovalRow
  BY <1>t, Rows DEF ApprovalRow
<1>2. task[t].state \in {"ready_for_approval", "completed"}
  BY <1>t DEF PendingApprovalsWait
<1>3. ASSUME NEW b \in DOMAIN approvals, Reject(b)
      PROVE  ~Decided(t, b)
  <2>1. Decidable(b)
    BY <1>3 DEF Reject
  <2>2. a # b
    BY <1>1, <1>3, Rows, <1>t DEF Reject, ApprovalRow
  <2>3. a < b
    <3>1. a \in Nat /\ b \in Nat
      BY <1>t, Rows
    <3>2. ~(b < a)
      BY <2>1, DecidableIsNewest
    <3> QED
      BY <2>2, <3>1, <3>2
  <2>4. approvals[b].task # t /\ task[t].state = "completed"
    BY <1>t, <2>3 DEF PendingApprovalsWait
  <2> QED
    BY <2>4 DEF Decided
<1>4. /\ RecordStaged \/ RecordBlocked => t # job.id
      /\ Compose => t # job.id
  BY <1>2, ComposedTaskIntegrates
<1>5. TaskStep(t)
  BY <1>t, <1>1, WhoMovesTasks
<1>6. /\ task'[t].state \in {"ready_for_approval", "completed"}
      /\ task[t].state = "completed" => task'[t].state = "completed"
  <2>1. CASE task'[t].state = task[t].state \/ task'[t].state = "completed"
    BY <1>2, <2>1
  <2> QED
    BY <1>2, <1>3, <1>4, <1>5, <2>1 DEF TaskStep, Moves
<1>7. intent'[t] = intent[t]
  <2>1. intent \in [Tasks -> Commit \cup {None}]
    BY <1>t DEF TypeOK, TypeFiles
  <2>2. CASE Compose
    BY <1>1, <1>4, <2>1, <2>2 DEF Compose, IntentWritten
  <2>3. ASSUME NEW u \in Tasks, WorkPasses(u), intent' = [intent EXCEPT ![u] = None]
        PROVE  intent'[t] = intent[t]
    BY <1>1, <1>2, <2>1, <2>3 DEF WorkPasses
  <2> QED
    BY <1>t, <2>2, <2>3, WhoWritesIntents
<1> QED
  BY <1>1, <1>6, <1>7

LEMMA PendingApprovalsStillWait ==
  ASSUME CompositionInvariant, [Next]_vars
  PROVE  PendingApprovalsWait'
<1>t. /\ TypeOK /\ TypeOK' /\ PendingApprovalsWait /\ CommitsAreOrdered
      /\ CandidatesHaveTheirWork
  BY StepsKeepTypes DEF CompositionInvariant, PublicationInvariant, TypeStep
<1>l. Len(approvals) \in Nat /\ DOMAIN approvals = 1..Len(approvals)
  BY <1>t, Rows
<1> SUFFICES ASSUME NEW a \in DOMAIN approvals', approvals'[a].state = "pending"
             PROVE  /\ task'[approvals'[a].task].state \in {"ready_for_approval", "completed"}
                    /\ intent'[approvals'[a].task] = approvals'[a].candidate
                    /\ \A b \in DOMAIN approvals' : a < b =>
                         /\ approvals'[b].task # approvals'[a].task
                         /\ Len(approvals'[a].candidate) < Len(approvals'[b].candidate)
                         /\ task'[approvals'[a].task].state = "completed"
  BY DEF PendingApprovalsWait
<1>1. CASE SameApproval(a)
  <2>1. /\ a \in DOMAIN approvals /\ approvals[a].state = "pending"
        /\ approvals'[a].task = approvals[a].task
        /\ approvals'[a].candidate = approvals[a].candidate
    BY <1>1 DEF SameApproval
  <2>2. LET t == approvals[a].task IN
        /\ t \in Tasks
        /\ task'[t].state \in {"ready_for_approval", "completed"}
        /\ task[t].state = "completed" => task'[t].state = "completed"
        /\ intent'[t] = intent[t]
    BY <2>1, WaitingTasksStay
  <2>3. intent[approvals[a].task] = approvals[a].candidate
    BY <1>t, <2>1 DEF PendingApprovalsWait
  <2>4. ASSUME NEW b \in DOMAIN approvals', a < b, SameApproval(b)
        PROVE  /\ approvals'[b].task # approvals'[a].task
               /\ Len(approvals'[a].candidate) < Len(approvals'[b].candidate)
               /\ task'[approvals'[a].task].state = "completed"
    <3>1. /\ approvals[b].task # approvals[a].task
          /\ Len(approvals[a].candidate) < Len(approvals[b].candidate)
          /\ task[approvals[a].task].state = "completed"
      BY <1>t, <2>1, <2>4 DEF PendingApprovalsWait, SameApproval
    <3> QED
      BY <2>1, <2>2, <2>4, <3>1 DEF SameApproval
  <2>5. ASSUME NEW b \in DOMAIN approvals', a < b, AddedApproval(b)
        PROVE  /\ approvals'[b].task # approvals'[a].task
               /\ Len(approvals'[a].candidate) < Len(approvals'[b].candidate)
               /\ task'[approvals'[a].task].state = "completed"
    <3>1. RecordStaged /\ approvals'[b].task = job.id /\ approvals'[b].candidate = result
      BY <2>5 DEF AddedApproval, Approval
    <3>2. approvals[a].task \notin Covered
      BY <1>t, <2>1, <3>1, PendingIsSuperseded
    <3>3. approvals[a].task # job.id /\ task[approvals[a].task].state = "completed"
      BY <1>t, <2>1, <2>2, <3>2 DEF Covered, PendingApprovalsWait
    <3>4. /\ result \in Commit /\ result # <<>> /\ Last(result).by = job.id
          /\ staging = result
      BY <3>1, WhatIsRecorded
    <3>5. /\ approvals[a].candidate \in Commit /\ project.head \in Commit
          /\ IsPrefix(approvals[a].candidate, project.head) /\ IsPrefix(project.head, result)
          /\ Last(approvals[a].candidate).by = approvals[a].task
      BY <1>t, <2>1, <3>4, CommitsHere DEF CommitsAreOrdered, CandidatesHaveTheirWork
    <3>6. IsPrefix(approvals[a].candidate, result)
      BY <3>4, <3>5, PrefixTransitive DEF Commit
    <3>7. approvals[a].candidate # result
      BY <3>3, <3>4, <3>5
    <3>8. /\ Len(approvals[a].candidate) \in Nat /\ Len(result) \in Nat
          /\ Len(approvals[a].candidate) <= Len(result)
          /\ ~(Len(result) <= Len(approvals[a].candidate))
      BY <3>4, <3>5, <3>6, <3>7, PrefixElements, PrefixAntisymmetric, CommitBasics
    <3> QED
      BY <2>1, <2>2, <3>1, <3>3, <3>8
  <2> QED
    BY <1>t, <2>1, <2>2, <2>3, <2>4, <2>5, ApprovalsAfter
<1>2. CASE AddedApproval(a)
  <2>1. /\ RecordStaged /\ approvals'[a].task = job.id /\ approvals'[a].candidate = result
        /\ a = Len(approvals) + 1
    BY <1>2 DEF AddedApproval, Approval
  <2>2. task'[job.id].state = "ready_for_approval"
    <3>1. job.id \in Tasks
      BY <2>1, WhatIsRecorded
    <3> QED
      BY <1>t, <2>1, <3>1 DEF RecordStaged, TypeOK, TypeStore, TaskRow
  <2>3. intent'[job.id] = result
    BY <2>1, WhatIsRecorded DEF RecordStaged, files
  <2>4. ASSUME NEW b \in DOMAIN approvals', a < b PROVE FALSE
    <3>1. CASE SameApproval(b)
      BY <1>l, <2>1, <2>4, <3>1 DEF SameApproval
    <3>2. CASE AddedApproval(b)
      BY <1>l, <2>1, <2>4, <3>2 DEF AddedApproval
    <3> QED
      BY <1>t, <3>1, <3>2, ApprovalsAfter
  <2> QED
    BY <2>1, <2>2, <2>3, <2>4
<1> QED
  BY <1>t, <1>1, <1>2, ApprovalsAfter

-------------------------------------------------------------------------------
(* Staged and completed work *)

\* What a publication that reached main completes is in main.
LEMMA PublishedWorkIsInMain ==
  ASSUME CompositionInvariant, RecordIntegrated, NEW t \in job.row.covered
  PROVE  /\ job.id \in DOMAIN approvals /\ t \in approvals[job.id].covered
         /\ approvals[job.id].state = "accept"
         /\ Built(t, approvals[job.id].candidate)
         /\ IsPrefix(approvals[job.id].candidate, main)
         /\ Built(t, main)
<1>t. /\ TypeOK /\ RowsStayTrue /\ RowsStayOwn /\ RecordsFollowMain /\ CandidatesHaveTheirWork
  BY DEF CompositionInvariant, PublicationInvariant
<1>1. At("publish", "record")
  BY DEF RecordIntegrated
<1>2. job \in Underway /\ job.kind = "publish" /\ job.id \in DOMAIN approvals
  BY <1>1, <1>t, Jobs DEF At, Underway
<1>3. /\ approvals[job.id].state = "accept" /\ approvals[job.id].candidate = job.row.candidate
      /\ job.row.covered = approvals[job.id].covered
  BY <1>2, <1>t DEF RowsStayTrue, RowsStayOwn
<1>4. IsPrefix(approvals[job.id].candidate, main)
  BY <1>1, <1>3, <1>t DEF RecordsFollowMain
<1>5. Built(t, approvals[job.id].candidate)
  BY <1>2, <1>3, <1>t DEF CandidatesHaveTheirWork
<1>6. approvals[job.id].candidate \in Commit /\ main \in Commit
  BY <1>2, <1>t, CommitsHere
<1> QED
  BY <1>2, <1>3, <1>4, <1>5, <1>6, DescendantsKeepWork

\* What a decision moves was staged or done.
LEMMA DecidedTasksWereStaged ==
  ASSUME CompositionInvariant, NEW a \in DOMAIN approvals, Decidable(a),
         NEW t \in Tasks, Decided(t, a)
  PROVE  /\ task[t].state \in {"ready_for_approval", "completed"}
         /\ t \in approvals[a].covered /\ Built(t, approvals[a].candidate)
BY DEF CompositionInvariant, PendingApprovalsWait, CandidatesHaveTheirWork, Decidable, Decided

LEMMA StagedWorkIsKept ==
  ASSUME CompositionInvariant, [Next]_vars
  PROVE  StagedWorkStays'
<1>t. /\ TypeOK /\ TypeOK' /\ PublicationInvariant /\ StagedWorkStays
  BY StepsKeepTypes DEF CompositionInvariant, PublicationInvariant, TypeStep
<1>m. IsPrefix(main, main') /\ main \in Commit /\ main' \in Commit
  BY <1>t, MainGrows
<1>h. IsPrefix(project.head, project'.head) /\ project.head \in Commit /\ project'.head \in Commit
  BY HeadGrows
<1> SUFFICES ASSUME NEW t \in Tasks
             PROVE  /\ task'[t].state = "ready_for_approval" => Composes(t, project.head)'
                    /\ task'[t].state = "completed" =>
                         Composes(t, project.head)' \/ Built(t, main')
  BY DEF StagedWorkStays, Built
<1>s. TaskStep(t)
  BY <1>t, WhoMovesTasks
<1>1. ASSUME SameWork(t), Composes(t, project.head)
      PROVE  Composes(t, project.head)'
  <2>1. Composes(t, project'.head)
    BY <1>h, <1>1, DescendantsKeepWork
  <2> QED
    BY <1>1, <2>1 DEF Composes, SameWork
<1>2. Built(t, main) => Built(t, main')
  BY <1>m, DescendantsKeepWork
<1>3. CASE SameWork(t) /\ task'[t].state = task[t].state
  BY <1>1, <1>2, <1>3, <1>t DEF StagedWorkStays
<1>4. CASE task'[t].state \notin {"ready_for_approval", "completed"}
  BY <1>4
<1>5. ASSUME NEW a \in DOMAIN approvals, SameWork(t), Decided(t, a), Accept(a),
             task'[t].state = "completed"
      PROVE  Composes(t, project.head)' \/ Built(t, main')
  <2>1. task[t].state \in {"ready_for_approval", "completed"}
    BY <1>5, DecidedTasksWereStaged DEF Accept
  <2> QED
    BY <1>1, <1>2, <1>5, <1>t, <2>1 DEF StagedWorkStays
<1>6. CASE SameWork(t) /\ RecordStaged /\ t = job.id /\ task'[t].state = "ready_for_approval"
  <2>1. /\ result \in Commit /\ result # <<>>
        /\ Last(result).by = t /\ Last(result).build = task[t].build_attempt
    BY <1>6, WhatIsRecorded
  <2>2. Composes(t, result)
    BY <2>1, FrontOfCommit DEF Composes
  <2>3. project'.head = result
    <3>1. project \in ProjectRow
      BY <1>t, Rows
    <3> QED
      BY <1>6, <3>1 DEF RecordStaged, ProjectRow
  <2> QED
    BY <1>6, <2>2, <2>3 DEF Composes, SameWork
<1>7. CASE SameWork(t) /\ RecordIntegrated /\ t \in job.row.covered /\ task'[t].state = "completed"
  BY <1>2, <1>7, PublishedWorkIsInMain
<1> QED
  BY <1>s, <1>3, <1>4, <1>5, <1>6, <1>7 DEF TaskStep, Moves

\* The action property's step.
LEMMA CompletedAsAccepted ==
  ASSUME CompositionInvariant, [Next]_vars, NEW t \in Tasks,
         task[t].state # "completed", task'[t].state = "completed"
  PROVE  \E a \in DOMAIN approvals :
           /\ approvals'[a].state = "accept"
           /\ t \in approvals[a].covered /\ Built(t, approvals[a].candidate)
           /\ \/ task[t].state = "ready_for_approval" /\ approvals[a].candidate = project.head
              \/ IsPrefix(approvals[a].candidate, main)
<1>t. TypeOK
  BY DEF CompositionInvariant, PublicationInvariant
<1>1. ASSUME NEW a \in DOMAIN approvals, Decided(t, a), Accept(a)
      PROVE  /\ approvals'[a].state = "accept"
             /\ t \in approvals[a].covered /\ Built(t, approvals[a].candidate)
             /\ task[t].state = "ready_for_approval" /\ approvals[a].candidate = project.head
  <2>1. Decidable(a) /\ approvals' = [approvals EXCEPT ![a].state = "accept"]
    BY <1>1 DEF Accept
  <2>2. approvals'[a].state = "accept"
    BY <1>t, <2>1, Rows DEF ApprovalRow
  <2> QED
    BY <1>1, <2>1, <2>2, DecidedTasksWereStaged DEF Decidable
<1>2. ASSUME RecordIntegrated, t \in job.row.covered
      PROVE  /\ job.id \in DOMAIN approvals /\ approvals'[job.id].state = "accept"
             /\ t \in approvals[job.id].covered /\ Built(t, approvals[job.id].candidate)
             /\ IsPrefix(approvals[job.id].candidate, main)
  BY <1>t, <1>2, PublishedWorkIsInMain, AcceptedApprovalsStay DEF AcceptedStay
<1>3. TaskStep(t)
  BY <1>t, WhoMovesTasks
<1> QED
  BY <1>1, <1>2, <1>3 DEF TaskStep, Moves

-------------------------------------------------------------------------------
(* Each lease's work is composed once *)

LEMMA TokensGrow ==
  ASSUME TypeOK, [Next]_vars, NEW t \in Tasks
  PROVE  task[t].token \in Nat /\ task'[t].token \in Nat /\ task[t].token <= task'[t].token
<1>1. task[t].token \in Nat
  BY Rows DEF TaskRow
<1>2. TaskStep(t)
  BY WhoMovesTasks
<1>3. task'[t].token \in {task[t].token, task[t].token + 1}
  BY <1>2 DEF TaskStep, SameWork
<1> QED
  BY <1>1, <1>3

LEMMA GrantedStays ==
  ASSUME TypeOK, [Next]_vars, NEW c \in Commit, Granted(c)
  PROVE  \A i \in DOMAIN c : c[i].by # Owner => c[i].token <= task'[c[i].by].token
<1> SUFFICES ASSUME NEW i \in DOMAIN c, c[i].by # Owner
             PROVE  c[i].token <= task'[c[i].by].token
  OBVIOUS
<1>1. c[i].by \in Tasks /\ c[i].token \in Nat
  BY CommitBasics DEF Change
<1>2. c[i].token <= task[c[i].by].token
  BY DEF Granted
<1> QED
  BY <1>1, <1>2, TokensGrow

\* A commit stays single when a change no lease has made yet is put on it.
LEMMA SingleAppend ==
  ASSUME NEW c \in Commit, NEW e \in Change, Once(c), Granted(c),
         \/ e.by = Owner
         \/ /\ e.token <= task[e.by].token
            /\ \A i \in DOMAIN c : c[i].by = e.by => c[i].token < e.token
  PROVE  Once(Append(c, e)) /\ Granted(Append(c, e))
<1> DEFINE d == Append(c, e)
<1>1. /\ d \in Commit /\ Len(d) = Len(c) + 1 /\ Last(d) = e /\ IsPrefix(c, d)
  BY AppendToCommit
<1> HIDE DEF d
<1>2. /\ Len(c) \in Nat /\ DOMAIN c = 1..Len(c) /\ DOMAIN d = 1..(Len(c) + 1)
      /\ \A i \in DOMAIN c : d[i] = c[i] /\ c[i] \in Change
      /\ d[Len(c) + 1] = e
  BY <1>1, CommitBasics, PrefixElements DEF Last
<1>3. \A i \in DOMAIN d : i \in DOMAIN c \/ i = Len(c) + 1
  BY <1>2
<1>4. e.token \in Nat /\ \A i \in DOMAIN c : c[i].token \in Nat
  BY <1>2 DEF Change
<1>5. ASSUME NEW i \in DOMAIN d, NEW j \in DOMAIN d, d[i].by # Owner, d[i].by = d[j].by,
             d[i].token = d[j].token
      PROVE  i = j
  <2>1. CASE i \in DOMAIN c /\ j \in DOMAIN c
    BY <1>2, <1>5, <2>1 DEF Once
  <2>2. CASE i \in DOMAIN c /\ j = Len(c) + 1
    <3>1. c[i].by = e.by /\ c[i].token = e.token /\ e.by # Owner
      BY <1>2, <1>5, <2>2
    <3>2. c[i].token < e.token
      BY <2>2, <3>1
    <3> QED
      BY <1>4, <2>2, <3>1, <3>2
  <2>3. CASE j \in DOMAIN c /\ i = Len(c) + 1
    <3>1. c[j].by = e.by /\ c[j].token = e.token /\ e.by # Owner
      BY <1>2, <1>5, <2>3
    <3>2. c[j].token < e.token
      BY <2>3, <3>1
    <3> QED
      BY <1>4, <2>3, <3>1, <3>2
  <2>4. CASE i = Len(c) + 1 /\ j = Len(c) + 1
    BY <2>4
  <2> QED
    BY <1>3, <2>1, <2>2, <2>3, <2>4
<1>6. Once(d)
  BY <1>5 DEF Once
<1>7. Granted(d)
  BY <1>2, <1>3 DEF Granted
<1> QED
  BY <1>6, <1>7 DEF d

LEMMA ChangesStaySingle ==
  ASSUME CompositionInvariant, [Next]_vars
  PROVE  ChangesAreSingle'
<1>t. /\ TypeOK /\ TypeOK' /\ PublicationInvariant /\ ChangesAreSingle /\ CommitsAreOrdered
      /\ ComposedLater
  BY StepsKeepTypes DEF CompositionInvariant, PublicationInvariant, TypeStep
<1>c. /\ main \in Commit /\ main' \in Commit /\ staging \in Commit /\ staging' \in Commit
      /\ project.head \in Commit
      /\ \A t \in Tasks : intent[t] # None => intent[t] \in Commit
      /\ \A t \in Tasks : intent'[t] # None => intent'[t] \in Commit
  <2>1. /\ main' \in Commit /\ staging' \in Commit
        /\ \A t \in Tasks : intent'[t] # None => intent'[t] \in Commit
    BY <1>t DEF TypeOK, TypeGit, TypeFiles
  <2> QED
    BY <1>t, <2>1, CommitsHere
<1>g. \A c \in Commit : Granted(c) =>
        \A i \in DOMAIN c : c[i].by # Owner => c[i].token <= task'[c[i].by].token
  BY <1>t, GrantedStays
<1>1. Once(staging') /\ Granted(staging')
  <2>1. CASE FollowsMain
    BY <1>t, <2>1 DEF FollowsMain, FastForwarded, ChangesAreSingle
  <2>2. CASE Merge
    <3>1. staging' = intent[job.id] /\ job.id \in Tasks
      BY <2>2, StagingGrows
    <3>2. intent[job.id] # None
      BY <1>c, <3>1, StagingAssumption
    <3> QED
      BY <1>t, <3>1, <3>2 DEF ChangesAreSingle
  <2> QED
    BY <1>t, <2>1, <2>2, WhoMovesStaging DEF ChangesAreSingle
<1>2. Once(main') /\ Granted(main')
  <2>1. CASE OwnerCommits
    <3> DEFINE change == [by |-> Owner, build |-> 0, token |-> Len(main)]
    <3>1. change \in Change /\ change.by = Owner
      BY <1>c, CommitBasics DEF Change
    <3>2. main' = Append(main, change)
      BY <2>1 DEF OwnerCommits
    <3> HIDE DEF change
    <3> QED
      BY <1>c, <1>t, <3>1, <3>2, SingleAppend DEF ChangesAreSingle
  <2>2. CASE PublishAdvances
    <3>1. At("publish", "advance")
      BY <2>2 DEF PublishAdvances
    <3>2. /\ job \in Underway /\ job.kind = "publish" /\ job.id \in DOMAIN approvals
      BY <1>t, <3>1, Jobs DEF At, Underway
    <3>3. approvals[job.id].candidate = job.row.candidate
      BY <1>t, <3>2 DEF PublicationInvariant, RowsStayTrue
    <3>4. /\ job.row.candidate \in Commit
          /\ IsPrefix(job.row.candidate, project.head) /\ IsPrefix(project.head, staging)
      BY <1>t, <3>2, <3>3, CommitsHere DEF CommitsAreOrdered
    <3>5. IsPrefix(job.row.candidate, staging)
      BY <1>c, <3>4, PrefixTransitive DEF Commit
    <3>6. Once(job.row.candidate) /\ Granted(job.row.candidate)
      BY <1>c, <1>t, <3>4, <3>5, AncestorsAreSingle DEF ChangesAreSingle
    <3> QED
      BY <1>t, <2>2, <3>6 DEF PublishAdvances, ChangesAreSingle
  <2> QED
    BY <1>t, <2>1, <2>2, WhoMovesMain DEF ChangesAreSingle
<1>3. ASSUME NEW t \in Tasks, intent'[t] # None
      PROVE  Once(intent'[t]) /\ Granted(intent'[t])
  <2>i. intent \in [Tasks -> Commit \cup {None}]
    BY <1>t DEF TypeOK, TypeFiles
  <2>1. CASE intent'[t] = intent[t]
    BY <1>3, <1>t, <2>1 DEF ChangesAreSingle
  <2>2. CASE Compose /\ t = job.id
    <3> DEFINE change == [by |-> job.id, build |-> job.row.build_attempt,
                          token |-> job.row.token]
    <3>1. At("integrate", step) /\ step = "compose" /\ Composing
      BY <2>2 DEF Compose, At, Composing
    <3>2. /\ result = project.head
          /\ task[job.id].state = "integrating" /\ task[job.id].token = job.row.token
      BY <3>1 DEF CompositionInvariant, CompositionIsAlone, Stale
    <3>3. /\ job.id \in Tasks /\ change \in Change
          /\ change.by = job.id /\ change.token = job.row.token
      BY <1>t, <3>1, Jobs DEF Change, TaskRow
    <3>4. intent'[t] = Append(project.head, change)
      BY <2>i, <2>2, <3>2, <3>3 DEF Compose, IntentWritten
    <3>5. Once(project.head) /\ Granted(project.head)
      BY <1>c, <1>t, AncestorsAreSingle DEF CommitsAreOrdered, ChangesAreSingle
    <3> HIDE DEF change
    <3>6. \A i \in DOMAIN project.head :
            project.head[i].by = change.by => project.head[i].token < change.token
      BY <1>t, <3>2, <3>3 DEF ComposedLater
    <3>7. change.token <= task[change.by].token
      <4>1. task[job.id].token \in Nat
        BY <1>t, <3>3, Rows DEF TaskRow
      <4> QED
        BY <3>2, <3>3, <4>1
    <3> QED
      BY <1>c, <3>3, <3>4, <3>5, <3>6, <3>7, SingleAppend
  <2>3. ASSUME Compose PROVE intent'[t] = intent[t] \/ t = job.id
    BY <2>i, <2>3 DEF Compose, IntentWritten
  <2>4. ASSUME NEW u \in Tasks, intent' = [intent EXCEPT ![u] = None]
        PROVE  intent'[t] = intent[t]
    BY <1>3, <2>i, <2>4
  <2> QED
    BY <1>t, <2>1, <2>2, <2>3, <2>4, WhoWritesIntents
<1> QED
  BY <1>1, <1>2, <1>3, <1>c, <1>g DEF ChangesAreSingle, Granted, Once

LEMMA StillComposedLater ==
  ASSUME CompositionInvariant, [Next]_vars
  PROVE  ComposedLater'
<1>t. /\ TypeOK /\ ChangesAreSingle /\ CommitsAreOrdered /\ ComposedLater
  BY DEF CompositionInvariant, PublicationInvariant
<1>c. project.head \in Commit /\ staging \in Commit
  BY <1>t, CommitsHere
<1> SUFFICES ASSUME NEW t \in Tasks, task'[t].state = "integrating",
                    NEW i \in DOMAIN project'.head, project'.head[i].by = t
             PROVE  project'.head[i].token < task'[t].token
  BY DEF ComposedLater
<1>1. CASE WorkPasses(t) /\ task'[t].token = task[t].token + 1
  <2>1. project' = project
    BY <1>1 DEF WorkPasses
  <2>2. Granted(project.head)
    BY <1>c, <1>t, AncestorsAreSingle DEF CommitsAreOrdered, ChangesAreSingle
  <2>3. /\ project.head[i].token \in Nat /\ task[t].token \in Nat
        /\ project.head[i].token <= task[t].token
    <3>1. i \in DOMAIN project.head /\ project.head[i].by = t
      BY <2>1
    <3>2. project.head[i] \in Change
      BY <1>c, <3>1, CommitBasics
    <3> QED
      BY <1>t, <2>2, <3>1, <3>2, StagingAssumption, Rows DEF Granted, Change, TaskRow
  <2> QED
    BY <1>1, <2>1, <2>3
<1>2. CASE SameWork(t) /\ task[t].state = "integrating"
  <2>1. CASE project'.head = project.head
    BY <1>2, <1>t, <2>1 DEF ComposedLater, SameWork
  <2>2. ~FollowsMain
    BY <1>2, IntegratingIsBusy
  <2>3. CASE RecordStaged /\ project'.head = result
    <3>1. t # job.id
      BY <1>t, <2>3 DEF RecordStaged, TypeOK, TypeStore, TaskRow
    <3>2. /\ result \in Commit /\ result # <<>> /\ Last(result).by = job.id
          /\ Front(result) \in Commit /\ IsPrefix(Front(result), project.head)
      BY <2>3, WhatIsRecorded
    <3>3. /\ Len(result) = Len(Front(result)) + 1 /\ Last(result) = result[Len(result)]
          /\ IsPrefix(Front(result), result)
      BY <3>2, FrontOfCommit
    <3>4. i # Len(result)
      BY <2>3, <3>1, <3>2, <3>3
    <3>5. i \in DOMAIN Front(result)
      BY <2>3, <3>2, <3>3, <3>4, CommitBasics
    <3>6. Front(result)[i] = result[i] /\ i \in DOMAIN project.head
          /\ project.head[i] = Front(result)[i]
      BY <1>c, <3>2, <3>3, <3>5, PrefixElements
    <3> QED
      BY <1>2, <1>t, <2>3, <3>6 DEF ComposedLater, SameWork
  <2> QED
    BY <1>t, <2>1, <2>2, <2>3, WhoMovesHead
<1>3. TaskStep(t)
  BY <1>t, WhoMovesTasks
<1> QED
  BY <1>1, <1>2, <1>3 DEF TaskStep, Moves


-------------------------------------------------------------------------------
(* The theorems that hold whatever fails *)

LEMMA CompositionInitially == Init => CompositionInvariant
<1> SUFFICES ASSUME Init PROVE CompositionInvariant
  OBVIOUS
<1>1. PublicationInvariant
  BY InvariantInitially
<1>2. /\ DOMAIN approvals = {} /\ project.head = <<>> /\ staging = <<>> /\ main = <<>>
      /\ DOMAIN main = {} /\ job = None /\ Underway = {}
      /\ \A t \in Tasks : intent[t] = None /\ task[t].state = "absent"
  BY EmptySeq DEF Init, Underway
<1>3. IsPrefix(<<>>, <<>>)
  BY PrefixReflexive, EmptySeq
<1>4. CommitsAreOrdered /\ CandidatesHaveTheirWork /\ PendingApprovalsWait
  BY <1>2, <1>3 DEF CommitsAreOrdered, CandidatesHaveTheirWork, PendingApprovalsWait
<1>5. IntentsExtendHead /\ RowsStayOwn /\ CompositionIsAlone
  BY <1>2 DEF IntentsExtendHead, RowsStayOwn, CompositionIsAlone, Composing
<1>6. StagedWorkStays /\ ComposedLater
  BY <1>2 DEF StagedWorkStays, ComposedLater
<1>7. ChangesAreSingle
  BY <1>2, <1>3 DEF ChangesAreSingle, Once, Granted
<1> QED
  BY <1>1, <1>4, <1>5, <1>6, <1>7 DEF CompositionInvariant

LEMMA CompositionIsKept ==
  ASSUME CompositionInvariant, [Next]_vars
  PROVE  CompositionInvariant'
<1>1. PublicationInvariant'
  BY InvariantIsKept DEF CompositionInvariant
<1>2. CommitsAreOrdered' /\ CandidatesHaveTheirWork' /\ IntentsExtendHead' /\ RowsStayOwn'
  BY CommitsStayOrdered, CandidatesKeepTheirWork, IntentsStillExtendHead, RowsAreStillOwn
<1>3. CompositionIsAlone' /\ PendingApprovalsWait' /\ StagedWorkStays'
  BY CompositionStaysAlone, PendingApprovalsStillWait, StagedWorkIsKept
<1>4. ChangesAreSingle' /\ ComposedLater'
  BY ChangesStaySingle, StillComposedLater
<1> QED
  BY <1>1, <1>2, <1>3, <1>4 DEF CompositionInvariant

\* Nothing the owner, the world or a restart does lets staging, the head and the records of
\* integrate() and publish() part: each is where the other's last effect allows.
THEOREM CompositionInvariantHolds == Spec => []CompositionInvariant
<1>1. Init => CompositionInvariant
  BY CompositionInitially
<1>2. CompositionInvariant /\ [Next]_vars => CompositionInvariant'
  BY CompositionIsKept
<1> QED
  BY <1>1, <1>2, PTL DEF Spec

\* An integration that is interrupted and repeated, however often, adds its work to staging
\* once: the intent integrate() finds tells it what was done.
THEOREM WorkIsComposedOnce == Spec => []ComposedOnce
<1>1. CompositionInvariant => ComposedOnce
  BY DEF CompositionInvariant, ChangesAreSingle, Once, ComposedOnce
<1> QED
  BY <1>1, CompositionInvariantHolds, PTL

\* What decision() and integrate() told the owner is staged or done is in the project's head,
\* or in main: no later integration, synchronisation or failure drops it.
THEOREM StagedWorkIsNeverLost == Spec => []StagedWorkStays
<1>1. CompositionInvariant => StagedWorkStays
  BY DEF CompositionInvariant
<1> QED
  BY <1>1, CompositionInvariantHolds, PTL

\* No task is completed but by the owner's acceptance of a commit that has its work, or by that
\* commit's arrival in main.
THEOREM WorkIsCompletedAsAccepted == Spec => WorkCompletesAsAccepted
<1> DEFINE Accepted ==
      \A t \in Tasks : task[t].state # "completed" /\ task'[t].state = "completed" =>
         \E a \in DOMAIN approvals :
           /\ approvals'[a].state = "accept"
           /\ t \in approvals[a].covered /\ Built(t, approvals[a].candidate)
           /\ \/ task[t].state = "ready_for_approval" /\ approvals[a].candidate = project.head
              \/ IsPrefix(approvals[a].candidate, main)
<1>1. CompositionInvariant /\ [Next]_vars => [Accepted]_vars
  BY CompletedAsAccepted
<1> QED
  BY <1>1, CompositionInvariantHolds, PTL DEF Spec, WorkCompletesAsAccepted

-------------------------------------------------------------------------------
(* Staging can be explained, if the database takes what a job writes *)

\* A composition that came to nothing left staging where it was: RecordBlocked forgets no
\* commit of it.
FailuresMovedNothing ==
  At("integrate", "fail") => staging = project.head \/ intent[job.id] # staging

ExplainedInvariant == CompositionInvariant /\ StagingIsExplained /\ FailuresMovedNothing

LEMMA FailuresStillMoveNothing ==
  ASSUME CompositionInvariant, FailuresMovedNothing, [Next]_vars,
         "locked" \notin Faults, "unread" \notin Faults
  PROVE  FailuresMovedNothing'
<1> SUFFICES ASSUME job' # None, job'.kind = "integrate", step' = "fail"
             PROVE  staging' = project'.head \/ intent'[job'.id] # staging'
  BY DEF FailuresMovedNothing, At
<1>t. TypeOK /\ CompositionIsAlone /\ PendingApprovalsWait /\ IntentsExtendHead
  BY DEF CompositionInvariant, PublicationInvariant
<1>1. Composing'
  BY DEF Composing
<1>2. CASE UNCHANGED running /\ Composing
  <2>1. At("integrate", "fail") /\ job' = job
    BY <1>2 DEF At, running
  <2>2. project'.head = project.head /\ staging' = staging /\ intent'[job.id] = intent[job.id]
    BY <1>t, <1>2, CompositionUndisturbed
  <2> QED
    BY <2>1, <2>2 DEF FailuresMovedNothing
<1>3. CASE CompositionFails
  <2>1. /\ job' = job /\ job.id \in Tasks /\ At("integrate", step)
        /\ project' = project /\ staging' = staging /\ intent' = intent
    BY <1>t, <1>3, Jobs DEF CompositionFails, Goes, store, git, files
  <2>2. CASE step = "start" /\ ~Completed
    <3>1. Saved = None \/ staging # Saved
      BY <2>2 DEF Completed
    <3>2. staging # None
      BY <1>t, CommitsHere, StagingAssumption
    <3> QED
      BY <2>1, <3>1, <3>2 DEF Saved
  <2>3. CASE step = "compose"
    <3>1. staging = project.head
      BY <1>t, <2>1, <2>3 DEF CompositionIsAlone, Composing, At
    <3> QED
      BY <2>1, <3>1
  <2>5. CASE step = "merge"
    <3>1. intent[job.id] = result /\ Front(result) = staging
      BY <1>t, <2>1, <2>5 DEF CompositionIsAlone, Composing, At
    <3>2. result \in Commit /\ result # <<>>
      BY <1>t, <2>1, <3>1, CommitsHere, StagingAssumption DEF IntentsExtendHead
    <3>3. Front(result) # result
      BY <3>2, FrontOfCommit
    <3> QED
      BY <2>1, <3>1, <3>3
  <2>4. CASE step = "record" /\ Stale
    <3>1. ~Stale
      BY <1>t, <2>1, <2>4 DEF CompositionIsAlone, Composing, At
    <3> QED
      BY <2>4, <3>1
  <2> QED
    BY <1>3, <2>2, <2>3, <2>4, <2>5 DEF CompositionFails
<1>4. CASE Merge
  <2>1. At("integrate", "merge") /\ job.id \in Tasks
    <3>1. At("integrate", step) /\ step = "merge"
      BY <1>4 DEF Merge, At
    <3> QED
      BY <1>t, <3>1, Jobs
  <2>2. intent[job.id] = result /\ Front(result) = staging
    BY <1>t, <2>1 DEF CompositionIsAlone, Composing, At
  <2>3. result \in Commit /\ result # <<>>
    BY <1>t, <2>1, <2>2, CommitsHere, StagingAssumption DEF IntentsExtendHead
  <2>4. IsPrefix(staging, result)
    BY <2>2, <2>3, FrontOfCommit
  <2> QED
    BY <1>4, <2>4 DEF Merge, Goes, Related
<1>5. ~IntegrateRecovers /\ ~IntegrateResumes /\ ~IntegrateStarts /\ ~Compose /\ ~WriteReceipt
  BY DEF IntegrateRecovers, IntegrateResumes, IntegrateStarts, Compose, WriteReceipt, Goes
<1> QED
  BY <1>1, <1>2, <1>3, <1>4, <1>5, CompositionSteps

\* sync_staging() brings an explained staging to main, and the head with it or not.
LEMMA SynchronisedIsExplained ==
  ASSUME ExplainedInvariant, [Next]_vars, FollowsMain
  PROVE  StagingIsExplained'
<1>t. TypeOK /\ StagingIsExplained
  BY DEF ExplainedInvariant, CompositionInvariant, PublicationInvariant
<1>c. /\ main \in Commit /\ staging \in Commit /\ project.head \in Commit
      /\ IsPrefix(main, main)
  BY <1>t, CommitsHere, PrefixReflexive DEF Commit
<1>1. IsPrefix(project.head, main) /\ main # project.head /\ main' = main
  BY DEF FollowsMain, Behind
<1>2. IsPrefix(staging, main)
  <2>1. CASE staging = project.head
    BY <1>1, <2>1
  <2>2. CASE \E t \in Tasks : task[t].state = "integrating"
    BY <2>2, IntegratingIsBusy
  <2>3. ASSUME NEW t \in Tasks, intent[t] = staging, Front(staging) = project.head,
               ~IsPrefix(staging, main)
        PROVE  FALSE
    <3>1. staging # <<>>
      BY <1>t, <2>3, StagingAssumption
         DEF ExplainedInvariant, CompositionInvariant, IntentsExtendHead, Commit, TypeOK, TypeGit
    <3>2. Len(staging) = Len(project.head) + 1
      BY <1>c, <2>3, <3>1, FrontOfCommit
    <3>3. IsPrefix(main, staging)
      BY <2>3 DEF FollowsMain, Related
    <3>4. Len(project.head) < Len(main)
      <4>1. Len(project.head) <= Len(main)
        BY <1>c, <1>1, PrefixElements
      <4>2. Len(project.head) # Len(main)
        BY <1>c, <1>1, PrefixAntisymmetric, CommitBasics
      <4> QED
        BY <1>c, <4>1, <4>2, CommitBasics
    <3>5. Len(staging) <= Len(main)
      BY <1>c, <3>2, <3>4, CommitBasics
    <3>6. main = staging
      BY <1>c, <3>3, <3>5, PrefixAntisymmetric
    <3> QED
      BY <1>c, <2>3, <3>6
  <2> QED
    BY <1>t, <2>1, <2>2, <2>3 DEF StagingIsExplained
<1>3. staging' = main
  BY <1>2 DEF FollowsMain, FastForwarded
<1>4. project'.head = project.head \/ project'.head = main
  <2>1. ~RecordStaged
    <3>1. ASSUME RecordStaged PROVE FALSE
      BY <3>1, ComposedTaskIntegrates, IntegratingIsBusy DEF ExplainedInvariant
    <3> QED
      BY <3>1
  <2> QED
    BY <1>t, <2>1, WhoMovesHead
<1> QED
  BY <1>c, <1>1, <1>3, <1>4 DEF StagingIsExplained

\* The task whose commit staging is at keeps it until it is recorded.
LEMMA AnnouncedStagingStays ==
  ASSUME ExplainedInvariant, [Next]_vars, staging' = staging, project'.head = project.head,
         staging # project.head,
         NEW t \in Tasks, intent[t] = staging, Front(staging) = project.head,
         task[t].state = "integrating" \/ (task[t].state = "completed" /\ Built(t, main))
  PROVE  /\ intent'[t] = staging
         /\ \/ task'[t].state = "integrating"
            \/ task'[t].state = "completed" /\ Built(t, main')
<1>t. /\ TypeOK /\ CompositionInvariant /\ CompositionIsAlone /\ PendingApprovalsWait
      /\ PublicationInvariant /\ FailuresMovedNothing
  BY DEF ExplainedInvariant, CompositionInvariant, PublicationInvariant
<1>m. main \in Commit /\ main' \in Commit /\ IsPrefix(main, main')
  BY <1>t, MainGrows
<1>n. Built(t, main) => Built(t, main')
  BY <1>m, DescendantsKeepWork
<1>1. intent'[t] = staging
  <2>1. ~Compose
    <3>1. Compose => At("integrate", step) /\ step = "compose"
      BY DEF Compose, At
    <3>2. Compose => staging = project.head
      BY <1>t, <3>1 DEF CompositionIsAlone, Composing, At
    <3> QED
      BY <3>2
  <2>2. ASSUME NEW u \in Tasks, WorkPasses(u), intent' = [intent EXCEPT ![u] = None]
        PROVE  intent'[t] = staging
    <3>1. u # t
      BY <2>2 DEF WorkPasses
    <3> QED
      BY <1>t, <2>2, <3>1 DEF TypeOK, TypeFiles
  <2> QED
    BY <1>t, <2>1, <2>2, WhoWritesIntents
<1>2. ASSUME NEW a \in DOMAIN approvals, Reject(a), Decided(t, a) PROVE FALSE
  <2>1. Decidable(a)
    BY <1>2 DEF Reject
  <2>2. task[t].state # "integrating"
    BY <1>t, <1>2, <2>1, IntegratingIsUndecided
  <2>3. t = approvals[a].task
    BY <1>2, <2>2 DEF Decided
  <2>4. intent[t] = project.head
    BY <1>t, <2>1, <2>3 DEF PendingApprovalsWait, Decidable
  <2> QED
    BY <2>4
<1>3. ASSUME NEW a \in DOMAIN approvals, Accept(a), Decided(t, a), task'[t].state = "completed"
      PROVE  Built(t, main')
  <2>1. task[t].state # "integrating"
    BY <1>t, <1>3, IntegratingIsUndecided DEF Accept
  <2> QED
    BY <1>n, <2>1
<1>4. ~RecordStaged
  <2>1. RecordStaged => staging = result
    BY <1>t, WhatIsRecorded
  <2>2. RecordStaged => project'.head = result
    BY <1>t DEF RecordStaged, TypeOK, TypeStore, ProjectRow
  <2> QED
    BY <2>1, <2>2
<1>5. ~(RecordBlocked /\ t = job.id)
  <2>1. RecordBlocked => At("integrate", "fail")
    BY DEF RecordBlocked, At
  <2> QED
    BY <1>t, <2>1 DEF FailuresMovedNothing
<1>6. ASSUME RecordIntegrated, t \in job.row.covered PROVE Built(t, main')
  BY <1>t, <1>6, <1>n, PublishedWorkIsInMain
<1>7. TaskStep(t)
  BY <1>t, WhoMovesTasks
<1> QED
  BY <1>1, <1>2, <1>3, <1>4, <1>5, <1>6, <1>7, <1>n DEF TaskStep, Moves

LEMMA StagingStaysExplained ==
  ASSUME ExplainedInvariant, [Next]_vars
  PROVE  StagingIsExplained'
<1>t. /\ TypeOK /\ CompositionInvariant /\ PublicationInvariant /\ StagingIsExplained
      /\ CompositionIsAlone
  BY DEF ExplainedInvariant, CompositionInvariant, PublicationInvariant
<1>1. CASE FollowsMain
  BY <1>1, SynchronisedIsExplained
<1>2. CASE Merge
  <2>1. /\ At("integrate", "merge") /\ job.id \in Tasks /\ task[job.id].state = "integrating"
        /\ staging' = result /\ intent[job.id] = result
    BY <1>t, <1>2, ComposedTaskIntegrates, StagingGrows DEF Merge
  <2>2. Front(result) = project.head
    BY <1>t, <2>1 DEF CompositionIsAlone, Composing, At
  <2>3. task' = task /\ project' = project /\ intent' = intent
    BY <1>2 DEF Merge, store, files
  <2> QED
    BY <2>1, <2>2, <2>3 DEF StagingIsExplained
<1>3. CASE RecordStaged
  <2>1. staging = result /\ staging' = staging
    BY <1>t, <1>3, WhatIsRecorded
  <2>2. project'.head = result
    BY <1>t, <1>3 DEF RecordStaged, TypeOK, TypeStore, ProjectRow
  <2> QED
    BY <2>1, <2>2 DEF StagingIsExplained
<1>4. CASE staging' = staging /\ project'.head = project.head
  <2>1. CASE staging = project.head
    BY <1>4, <2>1 DEF StagingIsExplained
  <2>2. CASE IsPrefix(project.head, staging) /\ IsPrefix(staging, main)
    <3>1. IsPrefix(staging, main')
      BY <1>t, <2>2, MainGrows, CommitsHere, PrefixTransitive DEF Commit
    <3> QED
      BY <1>4, <2>2, <3>1 DEF StagingIsExplained
  <2>3. ASSUME staging # project.head, NEW t \in Tasks,
               intent[t] = staging, Front(staging) = project.head,
               task[t].state = "integrating" \/ (task[t].state = "completed" /\ Built(t, main))
        PROVE  StagingIsExplained'
    <3>1. /\ intent'[t] = staging
          /\ \/ task'[t].state = "integrating"
             \/ task'[t].state = "completed" /\ Built(t, main')
      BY <1>4, <2>3, AnnouncedStagingStays
    <3> QED
      BY <1>4, <2>3, <3>1 DEF StagingIsExplained, Built
  <2> QED
    BY <1>t, <2>1, <2>2, <2>3 DEF StagingIsExplained
<1> QED
  BY <1>t, <1>1, <1>2, <1>3, <1>4, WhoMovesStaging, WhoMovesHead

\* However the controller dies and whatever Git refuses to do, each restart can tell what moved
\* staging: an integration's commit that is announced and not recorded, one a late publication
\* has completed, or main.  A write that the database refuses, or a Git that does not even say
\* where staging is, takes this away, which is what the assumptions are about.
THEOREM StagingIsAlwaysExplained ==
  ASSUME "locked" \notin Faults, "unread" \notin Faults
  PROVE  Spec => []StagingIsExplained
<1>1. Init => ExplainedInvariant
  <2>1. Init => staging = project.head /\ job = None
    BY DEF Init
  <2> QED
    BY <2>1, CompositionInitially
       DEF ExplainedInvariant, StagingIsExplained, FailuresMovedNothing, At
<1>2. ExplainedInvariant /\ [Next]_vars => ExplainedInvariant'
  <2> SUFFICES ASSUME ExplainedInvariant, [Next]_vars PROVE ExplainedInvariant'
    OBVIOUS
  <2>1. CompositionInvariant'
    BY CompositionIsKept DEF ExplainedInvariant
  <2>2. StagingIsExplained'
    BY StagingStaysExplained
  <2>3. FailuresMovedNothing'
    BY FailuresStillMoveNothing DEF ExplainedInvariant
  <2> QED
    BY <2>1, <2>2, <2>3 DEF ExplainedInvariant
<1>3. ExplainedInvariant => StagingIsExplained
  BY DEF ExplainedInvariant
<1> QED
  BY <1>1, <1>2, <1>3, PTL DEF Spec

-------------------------------------------------------------------------------
(* What staged work waits for is shown *)

\* The newest approval is of the head, speaks for all that is staged, and is to be decided, or
\* accepted and on its way to main or refused there.
NewestSpeaksForStaged ==
  \A t \in Tasks : task[t].state = "ready_for_approval" =>
     LET newest == approvals[Len(approvals)] IN
     /\ Len(approvals) \in DOMAIN approvals
     /\ t \in newest.covered /\ newest.candidate = project.head
     /\ \/ newest.state = "pending"
        \/ newest.state = "accept" /\ newest.publication \in {"queued", "failed"}

\* The accepted head follows the head and has what was completed.
AcceptedWorkStays ==
  /\ IsPrefix(project.accepted_head, project.head)
  /\ \A t \in Tasks : task[t].state = "completed" =>
        Composes(t, project.accepted_head) \/ Built(t, main)

WaitingInvariant == CompositionInvariant /\ NewestSpeaksForStaged /\ AcceptedWorkStays

LEMMA WhoMovesAcceptedHead ==
  ASSUME TypeOK, [Next]_vars
  PROVE  \/ project'.accepted_head = project.accepted_head
         \/ FollowsMain /\ project'.accepted_head = main /\ project'.head = main
         \/ \E a \in DOMAIN approvals : /\ Accept(a) /\ project'.accepted_head = project.head
                                        /\ project'.head = project.head
         \/ RecordStaged /\ project'.accepted_head = result /\ project'.head = result
<1>p. project \in ProjectRow
  BY Rows
<1>1. CASE UNCHANGED vars
  BY <1>1 DEF vars, store
<1>2. ASSUME NEW t \in Tasks, AddGoal(t)
      PROVE  \/ project'.accepted_head = project.accepted_head
             \/ FollowsMain /\ project'.accepted_head = main /\ project'.head = main
  BY <1>2, <1>p DEF AddGoal, FollowsMain, ProjectRow
<1>3. ASSUME NEW a \in DOMAIN approvals, Accept(a)
      PROVE  project'.accepted_head = project.head /\ project'.head = project.head
  BY <1>3, <1>p DEF Accept, Decidable, ProjectRow
<1>4. CASE Requested
  BY <1>2, <1>3, <1>4, <1>p DEF Requested, GoalRefused, Retry, Reject,
     RequestIntegration, SetPolicy, SetEnabled, store, ProjectRow
<1>5. CASE Tick
  BY <1>5 DEF Tick, ReadApprovals, ReadTasks, TickEnds, Submit, store
<1>6. CASE RecordStaged
  BY <1>6, <1>p DEF RecordStaged, ProjectRow
<1>7. CASE Integrate
  BY <1>6, <1>7, <1>p DEF Integrate, IntegrateDeclines, IntegrateRecovers, IntegrateResumes,
     IntegrateStarts, IntegrateRefuses, Compose, ComposeFails, MergeFails, Merge, WriteReceipt,
     RecordBlocked, store, ProjectRow
<1>8. CASE Publish
  BY <1>8, <1>p DEF Publish, PublishRecovers, PublishStarts, PublishRefuses, PublishAdvances,
     PublishVerifies, RecordIntegrated, RecordFailed, store, ProjectRow
<1>9. CASE OwnerCommits \/ (\E t \in Tasks : WorkPasses(t) \/ WorkStops(t))
             \/ WriteFails \/ ControllerCrash \/ ControllerRestarts
  BY <1>9 DEF OwnerCommits, WorkPasses, WorkStops, WriteFails, ControllerCrash,
     ControllerRestarts, store
<1> QED
  BY <1>1, <1>4, <1>5, <1>7, <1>8, <1>9 DEF Next

LEMMA AcceptedWorkIsKept ==
  ASSUME WaitingInvariant, [Next]_vars
  PROVE  AcceptedWorkStays'
<1>t. /\ TypeOK /\ TypeOK' /\ PublicationInvariant /\ CompositionInvariant
      /\ StagedWorkStays /\ AcceptedWorkStays
  BY StepsKeepTypes DEF WaitingInvariant, CompositionInvariant, PublicationInvariant, TypeStep
<1>m. IsPrefix(main, main') /\ main \in Commit /\ main' \in Commit
  BY <1>t, MainGrows
<1>h. /\ IsPrefix(project.head, project'.head)
      /\ project.head \in Commit /\ project'.head \in Commit
  BY <1>t, HeadGrows
<1>a. project.accepted_head \in Commit /\ project'.accepted_head \in Commit
  <2>1. project' \in ProjectRow
    BY <1>t DEF TypeOK, TypeStore
  <2> QED
    BY <1>t, <2>1, Rows DEF ProjectRow
<1>1. IsPrefix(project'.accepted_head, project'.head)
  <2>1. CASE project'.accepted_head = project.accepted_head
    BY <1>t, <1>h, <1>a, <2>1, PrefixTransitive DEF AcceptedWorkStays, Commit
  <2>2. CASE project'.accepted_head = project'.head
    BY <1>h, <2>2, PrefixReflexive DEF Commit
  <2> QED
    BY <1>t, <2>1, <2>2, WhoMovesAcceptedHead
<1>2. IsPrefix(project.accepted_head, project'.accepted_head)
  <2>1. CASE project'.accepted_head = project.accepted_head
    BY <1>a, <2>1, PrefixReflexive DEF Commit
  <2>2. CASE project'.accepted_head = project'.head
    BY <1>t, <1>h, <1>a, <2>2, PrefixTransitive DEF AcceptedWorkStays, Commit
  <2> QED
    BY <1>t, <2>1, <2>2, WhoMovesAcceptedHead
<1>3. ASSUME NEW t \in Tasks, task'[t].state = "completed"
      PROVE  Composes(t, project.accepted_head)' \/ Built(t, main')
  <2>1. ASSUME SameWork(t), Composes(t, project.accepted_head)
        PROVE  Composes(t, project.accepted_head)'
    <3>1. Composes(t, project'.accepted_head)
      BY <1>2, <1>a, <2>1, DescendantsKeepWork
    <3> QED
      BY <2>1, <3>1 DEF Composes, SameWork
  <2>2. Built(t, main) => Built(t, main')
    BY <1>m, DescendantsKeepWork
  <2>3. CASE SameWork(t) /\ task[t].state = "completed"
    BY <1>t, <2>1, <2>2, <2>3 DEF AcceptedWorkStays
  <2>4. ASSUME NEW a \in DOMAIN approvals, SameWork(t), Decided(t, a), Accept(a),
               task[t].state # "completed"
        PROVE  Composes(t, project.accepted_head)' \/ Built(t, main')
    <3>1. task[t].state = "ready_for_approval"
      BY <1>t, <2>4, DecidedTasksWereStaged DEF Accept
    <3>2. Composes(t, project.head)
      BY <1>t, <3>1 DEF StagedWorkStays
    <3>3. project'.accepted_head = project.head
      <4>1. project \in ProjectRow /\ approvals[a].candidate = project.head
        BY <1>t, <2>4, Rows DEF Accept, Decidable
      <4> QED
        BY <2>4, <4>1 DEF Accept, ProjectRow
    <3> QED
      BY <2>4, <3>2, <3>3 DEF Composes, SameWork
  <2>5. CASE RecordIntegrated /\ t \in job.row.covered
    BY <1>t, <2>2, <2>5, PublishedWorkIsInMain
  <2>6. TaskStep(t)
    BY <1>t, WhoMovesTasks
  <2> QED
    BY <2>3, <2>4, <2>5, <2>6, <1>3 DEF TaskStep, Moves
<1> QED
  BY <1>1, <1>3 DEF AcceptedWorkStays, Built

\* Jobs read the approval they publish after it was accepted.
LEMMA PublishedIsAccepted ==
  ASSUME CompositionInvariant, RecordIntegrated \/ RecordFailed
  PROVE  /\ job.id \in DOMAIN approvals /\ approvals[job.id].state = "accept"
         /\ job.row.covered = approvals[job.id].covered
<1>t. TypeOK /\ RowsStayTrue /\ RowsStayOwn
  BY DEF CompositionInvariant, PublicationInvariant
<1>1. At("publish", step)
  BY DEF RecordIntegrated, RecordFailed, At
<1>2. job \in Underway /\ job.kind = "publish" /\ job.id \in DOMAIN approvals
  BY <1>1, <1>t, Jobs DEF At, Underway
<1> QED
  BY <1>2, <1>t DEF RowsStayTrue, RowsStayOwn

\* What is decided is the newest approval, and its tasks wait no longer.
LEMMA DecisionsLeaveNothingStaged ==
  ASSUME WaitingInvariant, NEW a \in DOMAIN approvals, Accept(a) \/ Reject(a), NEW t \in Tasks
  PROVE  task'[t].state # "ready_for_approval"
<1>t. TypeOK /\ CompositionInvariant /\ NewestSpeaksForStaged
  BY DEF WaitingInvariant, CompositionInvariant, PublicationInvariant
<1>r. task[t] \in TaskRow /\ Len(approvals) \in Nat /\ DOMAIN approvals = 1..Len(approvals)
  BY <1>t, Rows
<1>1. Decidable(a)
  BY DEF Accept, Reject
<1>2. ASSUME task[t].state = "ready_for_approval"
      PROVE  Decided(t, a)
  <2>1. Len(approvals) \in DOMAIN approvals /\ t \in approvals[Len(approvals)].covered
    BY <1>t, <1>2 DEF NewestSpeaksForStaged
  <2>2. ~(a < Len(approvals))
    BY <1>t, <1>1, <2>1, DecidableIsNewest
  <2>3. a = Len(approvals)
    BY <1>r, <2>2
  <2> QED
    BY <1>2, <2>1, <2>3 DEF Decided
<1>3. CASE Accept(a)
  <2>1. task'[t] = IF Decided(t, a) THEN [task[t] EXCEPT !.state = "completed"] ELSE task[t]
    BY <1>3 DEF Accept, Decided
  <2> QED
    BY <1>r, <1>2, <2>1 DEF TaskRow
<1>4. CASE Reject(a)
  <2>1. task'[t] = IF Decided(t, a) THEN [task[t] EXCEPT !.state = "blocked"] ELSE task[t]
    BY <1>4 DEF Reject, Decided
  <2> QED
    BY <1>r, <1>2, <2>1 DEF TaskRow
<1> QED
  BY <1>3, <1>4

LEMMA OneMore ==
  ASSUME NEW m \in Nat, NEW n \in Nat, 1..n = (1..m) \cup {m + 1}
  PROVE  n = m + 1
<1>1. n >= m + 1
  <2>1. m + 1 \in 1..n
    OBVIOUS
  <2> QED
    BY <2>1
<1>2. n > m + 1 => FALSE
  <2>1. n > m + 1 => n \in 1..n /\ n \notin (1..m) \cup {m + 1}
    OBVIOUS
  <2> QED
    BY <2>1
<1> QED
  BY <1>1, <1>2

LEMMA SameEnd ==
  ASSUME NEW m \in Nat, NEW n \in Nat, 1..n = 1..m
  PROVE  n = m
<1>1. n < m => m \in 1..m /\ m \notin 1..n
  OBVIOUS
<1>2. m < n => n \in 1..n /\ n \notin 1..m
  OBVIOUS
<1> QED
  BY <1>1, <1>2

LEMMA NewestStillSpeaks ==
  ASSUME WaitingInvariant, [Next]_vars
  PROVE  NewestSpeaksForStaged'
<1>t. TypeOK /\ TypeOK' /\ CompositionInvariant /\ NewestSpeaksForStaged
  BY StepsKeepTypes DEF WaitingInvariant, CompositionInvariant, PublicationInvariant, TypeStep
<1>r. /\ \A a \in DOMAIN approvals : approvals[a] \in ApprovalRow
      /\ Len(approvals) \in Nat /\ DOMAIN approvals = 1..Len(approvals)
      /\ Len(approvals') \in Nat /\ DOMAIN approvals' = 1..Len(approvals')
  <2>1. approvals' \in Seq(ApprovalRow)
    BY <1>t DEF TypeOK, TypeStore
  <2> QED
    BY <1>t, <2>1, Rows, LenProperties
<1> SUFFICES ASSUME NEW t \in Tasks, task'[t].state = "ready_for_approval"
             PROVE  LET newest == approvals'[Len(approvals')] IN
                    /\ Len(approvals') \in DOMAIN approvals'
                    /\ t \in newest.covered /\ newest.candidate = project'.head
                    /\ \/ newest.state = "pending"
                       \/ newest.state = "accept" /\ newest.publication \in {"queued", "failed"}
  BY DEF NewestSpeaksForStaged
<1>s. TaskStep(t)
  BY <1>t, WhoMovesTasks
<1>1. CASE RecordStaged
  <2>1. DOMAIN approvals' = DOMAIN approvals \cup {Len(approvals) + 1}
        /\ approvals'[Len(approvals) + 1] = Approval
    BY <1>t, <1>1, NewApproval
  <2>2. Len(approvals') = Len(approvals) + 1
    <3>1. 1..Len(approvals') = (1..Len(approvals)) \cup {Len(approvals) + 1}
      BY <1>r, <2>1
    <3> QED
      BY <1>r, <3>1, OneMore
  <2>3. t \in Covered
    <3>1. t # job.id => task'[t] = task[t]
      BY <1>1, <1>t DEF RecordStaged, TypeOK, TypeStore
    <3> QED
      BY <3>1 DEF Covered
  <2>4. project'.head = result
    <3>1. project \in ProjectRow
      BY <1>t, Rows
    <3> QED
      BY <1>1, <3>1 DEF RecordStaged, ProjectRow
  <2> QED
    BY <1>r, <2>1, <2>2, <2>3, <2>4 DEF Approval
<1>2. CASE ~RecordStaged
  <2>1. task[t].state = "ready_for_approval"
    BY <1>2, <1>s DEF TaskStep, Moves
  <2> DEFINE n == Len(approvals)
  <2>2. /\ n \in DOMAIN approvals
        /\ t \in approvals[n].covered /\ approvals[n].candidate = project.head
        /\ \/ approvals[n].state = "pending"
           \/ approvals[n].state = "accept" /\ approvals[n].publication \in {"queued", "failed"}
    BY <1>t, <2>1 DEF NewestSpeaksForStaged
  <2>3. project'.head = project.head
    <3>1. ~FollowsMain
      BY <2>1 DEF FollowsMain, Behind, Busy
    <3> QED
      BY <1>t, <1>2, <3>1, WhoMovesHead
  <2>4. DOMAIN approvals' = DOMAIN approvals =>
          Len(approvals') = n /\ Len(approvals') \in DOMAIN approvals'
    <3>1. n \in Nat /\ n \in 1..n
      BY <1>r, <2>2
    <3>2. ASSUME 1..Len(approvals') = 1..n
          PROVE  Len(approvals') = n
      BY <1>r, <3>1, <3>2, SameEnd
    <3>3. DOMAIN approvals' = DOMAIN approvals => 1..Len(approvals') = 1..n
      BY <1>r
    <3> QED
      BY <2>2, <3>2, <3>3
  <2>5. CASE UNCHANGED approvals
    BY <2>2, <2>3, <2>5
  <2>6. ASSUME NEW a \in DOMAIN approvals, Accept(a) \/ Reject(a)
        PROVE  FALSE
    BY <2>6, DecisionsLeaveNothingStaged
  <2>7. ASSUME NEW a \in DOMAIN approvals, RequestIntegration(a)
        PROVE  /\ DOMAIN approvals' = DOMAIN approvals
               /\ approvals'[n].covered = approvals[n].covered
               /\ approvals'[n].candidate = approvals[n].candidate
               /\ \/ approvals'[n].state = "pending"
                  \/ /\ approvals'[n].state = "accept"
                     /\ approvals'[n].publication \in {"queued", "failed"}
    <3>1. approvals[n] \in ApprovalRow /\ approvals[a].state = "accept"
      BY <1>r, <2>2, <2>7 DEF RequestIntegration
    <3>2. approvals' = [approvals EXCEPT ![a].publication = "queued",
                                         ![a].expected_source = SourceExpected]
      BY <2>7 DEF RequestIntegration
    <3>3. DOMAIN approvals' = DOMAIN approvals
      BY <3>2
    <3>4. CASE a = n
      <4>1. /\ approvals'[n].covered = approvals[n].covered
            /\ approvals'[n].candidate = approvals[n].candidate
            /\ approvals'[n].state = "accept" /\ approvals'[n].publication = "queued"
        BY <2>2, <3>1, <3>2, <3>4 DEF ApprovalRow
      <4> QED
        BY <3>3, <4>1
    <3>5. CASE a # n
      <4>1. approvals'[n] = approvals[n]
        BY <2>2, <3>2, <3>5
      <4> QED
        BY <2>2, <3>3, <4>1
    <3> QED
      BY <3>4, <3>5
  <2>8. CASE RecordIntegrated
    <3>1. job.id # n
      <4>1. ASSUME job.id = n PROVE FALSE
        <5>1. t \in job.row.covered
          BY <1>t, <2>2, <2>8, <4>1, PublishedIsAccepted
        <5>2. task'[t].state = "completed"
          <6>1. task[t] \in TaskRow
            BY <1>t, Rows
          <6> QED
            BY <2>8, <5>1, <6>1 DEF RecordIntegrated, TaskRow
        <5> QED
          BY <5>2
      <4> QED
        BY <4>1
    <3>2. DOMAIN approvals' = DOMAIN approvals /\ approvals'[n] = approvals[n]
      BY <2>2, <2>8, <3>1 DEF RecordIntegrated, Concluded
    <3> QED
      BY <2>2, <2>3, <2>4, <3>2
  <2>9. CASE RecordFailed
    <3>1. job.id \in DOMAIN approvals /\ approvals[job.id].state = "accept"
      BY <1>t, <2>9, PublishedIsAccepted
    <3>2. DOMAIN approvals' = DOMAIN approvals /\ approvals' = Concluded("failed")
      BY <2>9 DEF RecordFailed, Concluded
    <3>3. CASE job.id = n
      <4>1. /\ approvals'[n].covered = approvals[n].covered
            /\ approvals'[n].candidate = approvals[n].candidate
            /\ approvals'[n].state = "accept" /\ approvals'[n].publication = "failed"
        BY <1>r, <2>2, <3>1, <3>2, <3>3 DEF Concluded, ApprovalRow
      <4> QED
        BY <2>2, <2>3, <2>4, <3>2, <4>1
    <3>4. CASE job.id # n
      <4>1. approvals'[n] = approvals[n]
        BY <2>2, <3>2, <3>4 DEF Concluded
      <4> QED
        BY <2>2, <2>3, <2>4, <3>2, <4>1
    <3> QED
      BY <3>3, <3>4
  <2> QED
    BY <1>2, <2>2, <2>3, <2>4, <2>5, <2>6, <2>7, <2>8, <2>9, WhoWritesApprovals
<1> QED
  BY <1>1, <1>2

LEMMA WaitingInitially == Init => WaitingInvariant
<1> SUFFICES ASSUME Init PROVE WaitingInvariant
  OBVIOUS
<1>1. CompositionInvariant
  BY CompositionInitially
<1>2. /\ \A t \in Tasks : task[t].state = "absent"
      /\ project.head = <<>> /\ project.accepted_head = <<>>
  BY DEF Init
<1>3. IsPrefix(<<>>, <<>>)
  BY PrefixReflexive, EmptySeq
<1> QED
  BY <1>1, <1>2, <1>3 DEF WaitingInvariant, NewestSpeaksForStaged, AcceptedWorkStays

\* The phone goes by the newest approval of a task: of a staged task that is the last one made.
LEMMA NewestIsLast ==
  ASSUME WaitingInvariant, NEW t \in Tasks, task[t].state = "ready_for_approval"
  PROVE  Newest(t) = approvals[Len(approvals)]
<1>t. TypeOK /\ NewestSpeaksForStaged
  BY DEF WaitingInvariant, CompositionInvariant, PublicationInvariant
<1> DEFINE n    == Len(approvals)
           mine == {a \in DOMAIN approvals : t = approvals[a].task \/ t \in approvals[a].covered}
<1>1. n \in Nat /\ DOMAIN approvals = 1..n
  BY <1>t, Rows
<1>2. n \in mine
  BY <1>t DEF NewestSpeaksForStaged
<1>3. \A a \in mine : a \in 1..n
  BY <1>1
<1>4. Newest(t) = IF mine = {} THEN Phone!NoApproval
                  ELSE approvals[CHOOSE a \in mine : \A b \in mine : b <= a]
  BY DEF Newest
<1> HIDE DEF mine, n
<1>5. \A a \in mine : (\A b \in mine : b <= a) <=> a = n
  <2> SUFFICES ASSUME NEW a \in mine PROVE (\A b \in mine : b <= a) <=> a = n
    OBVIOUS
  <2>1. a \in Nat /\ a <= n
    BY <1>1, <1>3
  <2>2. (\A b \in mine : b <= a) => a = n
    BY <1>1, <1>2, <2>1
  <2>3. \A b \in mine : b <= n
    BY <1>1, <1>3
  <2> QED
    BY <2>2, <2>3
<1>6. (CHOOSE a \in mine : \A b \in mine : b <= a) = n
  BY <1>2, <1>5
<1> QED
  BY <1>2, <1>4, <1>6 DEF n

\* What the phone shows of a staged task.
LEMMA StagedIsShown ==
  ASSUME WaitingInvariant, NEW t \in Tasks, task[t].state = "ready_for_approval"
  PROVE  LET newest == approvals[Len(approvals)] IN
         /\ t \in Existing /\ States[t] = "ready_for_approval"
         /\ Blocks[t] = Phone!Verified(newest, project.automatic)
<1>1. t \in Existing /\ States[t] = "ready_for_approval"
  BY DEF Existing, States
<1>2. Blocks[t] = Phone!Block("ready_for_approval", Newest(t), project.automatic)
  BY <1>1 DEF Blocks
<1>3. \A approval, automatic :
        Phone!Block("ready_for_approval", approval, automatic) = Phone!Verified(approval, automatic)
  BY DEF Phone!Block, Phone!InFlight, Phone!Active, Phone!Queued, Phone!OwnerStates
<1> QED
  BY <1>1, <1>2, <1>3, NewestIsLast

LEMMA StagedWorkIsShown ==
  ASSUME WaitingInvariant, NEW t \in Tasks, task[t].state = "ready_for_approval"
  PROVE  LET newest == Last(approvals) IN
         /\ t \in newest.covered /\ newest.candidate = project.head
         /\ \/ Blocks[t] = "needs_you" /\ newest.state = "pending"
            \/ Blocks[t] = "running" /\ newest.state = "accept" /\ newest.publication = "queued"
               /\ t \in StillGoing
            \/ Blocks[t] = "blocked" /\ newest.state = "accept" /\ newest.publication = "failed"
<1> DEFINE newest == approvals[Len(approvals)]
<1>1. Last(approvals) = newest
  BY DEF Last
<1>2. /\ t \in newest.covered /\ newest.candidate = project.head
      /\ \/ newest.state = "pending"
         \/ newest.state = "accept" /\ newest.publication \in {"queued", "failed"}
  BY DEF WaitingInvariant, NewestSpeaksForStaged
<1>3. /\ t \in Existing /\ States[t] = "ready_for_approval"
      /\ Blocks[t] = Phone!Verified(newest, project.automatic)
  BY StagedIsShown
<1> HIDE DEF newest
<1>4. newest.state = "pending" => Blocks[t] = "needs_you"
  BY <1>3 DEF Phone!Verified
<1>5. newest.state = "accept" /\ newest.publication = "failed" => Blocks[t] = "blocked"
  BY <1>3 DEF Phone!Verified
<1>6. newest.state = "accept" /\ newest.publication = "queued" => Blocks[t] = "running"
  BY <1>3 DEF Phone!Verified, Phone!NoApproval
<1>7. Blocks[t] = "running" => t \in StillGoing
  <2>1. DOMAIN States = Existing
    BY DEF States
  <2> QED
    BY <1>3, <2>1 DEF StillGoing, Phone!StillGoing
<1> QED
  BY <1>1, <1>2, <1>4, <1>5, <1>6, <1>7

\* Whom the phone asks about, and whose answer the build waits for, are the same tasks.
LEMMA OwnerIsAskedForApprovals ==
  ASSUME TypeOK
  PROVE  /\ Asked = {t \in Existing : States[t] = "ready_for_approval" /\ Blocks[t] = "needs_you"}
         /\ Asked = WaitingForOwner
<1>1. DOMAIN States = Existing
  BY DEF States
<1>2. \A t \in Existing : States[t] \notin {"awaiting_input", "needs_auth", "needs_permission"}
  <2> SUFFICES ASSUME NEW t \in Existing
               PROVE  States[t] \notin {"awaiting_input", "needs_auth", "needs_permission"}
    OBVIOUS
  <2>1. task[t] \in TaskRow
    BY Rows DEF Existing
  <2> QED
    BY <2>1 DEF States, TaskRow
<1> DEFINE waiting == {t \in Existing : States[t] = "ready_for_approval" /\ Blocks[t] = "needs_you"}
<1>3. WaitingForOwner = waiting
  BY <1>1, <1>2 DEF WaitingForOwner, Phone!WaitingForOwner, Phone!OwnerStates
<1>4. Phone!NeedsYou(States, Blocks) = {[kind |-> "approve", task |-> t] : t \in waiting}
  <2> DEFINE Asks(kind, from) == {[kind |-> kind, task |-> t] :
                                    t \in {u \in DOMAIN States : States[u] = from}}
  <2>1. /\ Asks("answer", "awaiting_input") = {} /\ Asks("sign_in", "needs_auth") = {}
        /\ Asks("permission", "needs_permission") = {}
    BY <1>1, <1>2
  <2>2. {ask \in Asks("approve", "ready_for_approval") : Blocks[ask.task] = "needs_you"}
          = {[kind |-> "approve", task |-> t] : t \in waiting}
    BY <1>1
  <2>3. Phone!NeedsYou(States, Blocks) =
          Asks("answer", "awaiting_input") \cup Asks("sign_in", "needs_auth")
            \cup Asks("permission", "needs_permission")
            \cup {ask \in Asks("approve", "ready_for_approval") : Blocks[ask.task] = "needs_you"}
    BY DEF Phone!NeedsYou
  <2> HIDE DEF Asks, waiting
  <2> QED
    BY <2>1, <2>2, <2>3
<1> HIDE DEF waiting
<1>5. Asked = waiting
  <2> DEFINE asks == {[kind |-> "approve", task |-> t] : t \in waiting}
  <2>1. \A t \in waiting : [kind |-> "approve", task |-> t] \in asks
                           /\ [kind |-> "approve", task |-> t].task = t
    OBVIOUS
  <2>2. \A ask \in asks : ask.task \in waiting
    OBVIOUS
  <2> HIDE DEF asks
  <2>3. \A t \in waiting : \E ask \in asks : ask.task = t
    BY <2>1
  <2>4. {ask.task : ask \in asks} = waiting
    BY <2>2, <2>3
  <2> QED
    BY <1>4, <2>4 DEF Asked, asks
<1> QED
  BY <1>3, <1>5 DEF waiting

LEMMA DecisionsAreAsked ==
  ASSUME WaitingInvariant, NEW a \in DOMAIN approvals, Decidable(a),
         NEW t \in approvals[a].covered, task[t].state = "ready_for_approval"
  PROVE  /\ Asked \cap approvals[a].covered # {} /\ Asked = WaitingForOwner
         /\ Status \in {"needs_you", "running"}
<1>t. TypeOK /\ CompositionInvariant /\ NewestSpeaksForStaged
  BY DEF WaitingInvariant, CompositionInvariant, PublicationInvariant
<1>1. t \in Tasks
  BY <1>t, Rows DEF ApprovalRow
<1>2. a = Len(approvals)
  <2>1. Len(approvals) \in DOMAIN approvals
    BY <1>t, <1>1 DEF NewestSpeaksForStaged
  <2>2. ~(a < Len(approvals))
    BY <1>t, <2>1, DecidableIsNewest
  <2>3. Len(approvals) \in Nat /\ DOMAIN approvals = 1..Len(approvals)
    BY <1>t, Rows
  <2> QED
    BY <2>2, <2>3
<1>3. t \in Existing /\ States[t] = "ready_for_approval" /\ Blocks[t] = "needs_you"
  <2>1. approvals[a].state = "pending"
    BY DEF Decidable
  <2>2. /\ t \in Existing /\ States[t] = "ready_for_approval"
        /\ Blocks[t] = Phone!Verified(approvals[a], project.automatic)
    BY <1>1, <1>2, StagedIsShown
  <2> QED
    BY <2>1, <2>2 DEF Phone!Verified
<1>4. t \in Asked /\ Asked = WaitingForOwner
  BY <1>t, <1>3, OwnerIsAskedForApprovals
<1>5. Status \in {"needs_you", "running"}
  <2> DEFINE shown == {Blocks[u] : u \in Existing}
  <2>1. "needs_you" \in shown
    BY <1>3
  <2>2. Status = Phone!GoalStatus(shown)
    BY DEF Status
  <2> HIDE DEF shown
  <2>3. CASE "running" \in shown
    BY <2>1, <2>2, <2>3 DEF Phone!GoalStatus
  <2>4. CASE "running" \notin shown
    BY <2>1, <2>2, <2>4 DEF Phone!GoalStatus
  <2> QED
    BY <2>3, <2>4
<1> QED
  BY <1>4, <1>5

\* Whatever is staged waits for the owner, for main or for the owner to ask again, and the phone
\* says which: an owner's decision is never hidden, and no staged work is left unmentioned.
THEOREM WaitingWorkIsAlwaysShown == Spec => []WaitingWorkIsShown
<1>1. Init => WaitingInvariant
  BY WaitingInitially
<1>2. WaitingInvariant /\ [Next]_vars => WaitingInvariant'
  <2> SUFFICES ASSUME WaitingInvariant, [Next]_vars PROVE WaitingInvariant'
    OBVIOUS
  <2>1. CompositionInvariant'
    BY CompositionIsKept DEF WaitingInvariant
  <2> QED
    BY <2>1, NewestStillSpeaks, AcceptedWorkIsKept DEF WaitingInvariant
<1>3. WaitingInvariant => WaitingWorkIsShown
  <2> SUFFICES ASSUME WaitingInvariant PROVE WaitingWorkIsShown
    OBVIOUS
  <2>1. Existing \subseteq Tasks
    BY DEF Existing
  <2>2. ASSUME NEW a \in DOMAIN approvals, Decidable(a),
               \E t \in approvals[a].covered : task[t].state = "ready_for_approval"
        PROVE  /\ Asked \cap approvals[a].covered # {} /\ Asked = WaitingForOwner
               /\ Status \in {"needs_you", "running"}
    BY <2>2, DecisionsAreAsked
  <2>3. ASSUME NEW t \in Existing, task[t].state = "completed"
        PROVE  Composes(t, project.accepted_head) \/ Built(t, main)
    BY <2>1, <2>3 DEF WaitingInvariant, AcceptedWorkStays
  <2> QED
    BY <2>1, <2>2, <2>3, StagedWorkIsShown DEF WaitingWorkIsShown
<1> QED
  BY <1>1, <1>2, <1>3, PTL DEF Spec
===============================================================================
