----------------------------- MODULE Conversations -----------------------------
(***************************************************************************)
(* One conversation between the owner and the director: the API requests   *)
(* that write to it (control/api.py), the thread that answers each message *)
(* (control/conversation.py, Director) and the recovery of turns nothing   *)
(* is answering any more.  Every action is one write transaction, or one   *)
(* read the code makes outside of one; between two of them the other       *)
(* requests, the turn's thread and a crash of the controller interleave.   *)
(*                                                                         *)
(* Abstracted: what messages say (a send is asked in building words or     *)
(* not, and is about a block of some project or not), the progress line    *)
(* of a turn, titles, and how the director reaches its answer.             *)
(***************************************************************************)
EXTENDS Naturals, Sequences, FiniteSets

CONSTANTS
  Projects,      \* the enrolled projects
  Sends,         \* messages the phone sends, each under an idempotency key of its own
  Explicit,      \* the sends whose words ask for a build (BUILD_INTENT)
  About,         \* Sends -> Projects or None: the block's project a send asks about
  Selections,    \* the projects the owner may select or enrol while chatting
  Made,          \* the sets of requests an instance may make
  Faults,        \* what may fail: "crash", "answer" (the director),
                 \* "locked" (a transaction), "refused" (the launched goal)
  MaxCrashes,    \* how often the controller may die
  None

ASSUME ConversationsAssumption ==
  /\ Explicit \subseteq Sends
  /\ About \in [Sends -> Projects \cup {None}]
  /\ Selections \subseteq Projects
  /\ None \notin Projects /\ None \notin Sends \X {1, 2}
  /\ Made \subseteq SUBSET (Sends \X {1, 2})
  /\ MaxCrashes \in Nat

\* A send reaches the API once, and once more when its caller repeats it.
Requests == Sends \X {1, 2}
SendOf(r) == r[1]

VARIABLES
  conv,      \* the conversation's row
  messages,  \* its messages, oldest first
  builds,    \* conv["builds"]: what its turns launched
  commands,  \* the idempotent command log: a send's stored response
  request,   \* how far each HTTP request is
  turn,      \* the thread a request started to answer it
  busy,      \* Director.busy: the turn that owns the conversation
  run,       \* which controller process this is (Director.started), 0 when none runs
  crashes    \* how many controllers have died

vars == <<conv, messages, builds, commands, request, turn, busy, run, crashes>>

NoDraft == [agreed |-> FALSE, of |-> None, raced |-> FALSE]

NoTurn == [pc |-> "none", saw |-> None, raced |-> FALSE, spec |-> NoDraft, project |-> None,
           offered |-> FALSE, reply |-> "none"]

Init ==
  /\ conv = [status |-> "idle", project |-> None, spec |-> NoDraft, opened |-> 0,
             aged |-> FALSE, offered |-> FALSE]
  /\ messages = <<>> /\ builds = {}
  /\ commands = [s \in Sends |-> "none"]
  /\ \E made \in Made : request = [r \in Requests |-> IF r \in made THEN "unsent" ELSE "never"]
  /\ turn = [r \in Requests |-> NoTurn]
  /\ busy = None
  /\ run = 1 /\ crashes = 0

-------------------------------------------------------------------------------
(* Recovery (Director.recover).                                            *)

\* Mutants: recovery that overlooks the turn this process is answering, and one without the
\* backstop for a turn whose thread died.
StaleThoughOwned == conv.status = "thinking" /\ (conv.opened < run \/ conv.aged)
StaleAfterRestart == conv.status = "thinking" /\ busy = None /\ conv.opened < run

\* A turn nothing answers: this process does not own it, and it was opened by an earlier
\* process or STALE_TURN_SECONDS ago.
Stale ==
  /\ conv.status = "thinking"
  /\ busy = None
  /\ conv.opened < run \/ conv.aged

Interrupted == [role |-> "assistant", of |-> None, kind |-> "interrupted"]

\* Close a stale turn with an error the owner may retry.
Recovered ==
  IF Stale
  THEN /\ messages' = Append(messages, Interrupted)
       /\ conv' = [conv EXCEPT !.status = "idle", !.opened = 0, !.aged = FALSE]
  ELSE UNCHANGED <<messages, conv>>

\* The phone reads the conversation, as it does while the director answers.
Read ==
  /\ run > 0 /\ Stale
  /\ Recovered
  /\ UNCHANGED <<builds, commands, request, turn, busy, run, crashes>>

\* STALE_TURN_SECONDS pass.
Age ==
  /\ conv.status = "thinking" /\ ~conv.aged
  /\ conv' = [conv EXCEPT !.aged = TRUE]
  /\ UNCHANGED <<messages, builds, commands, request, turn, busy, run, crashes>>

-------------------------------------------------------------------------------
(* The owner's requests.                                                   *)

\* A turn that has read the conversation and is still at work on it.
AtWork(r) == turn[r].pc \in {"looked", "launching", "drafted", "ending"}

\* The project changes under the turn at work.
Raced == [r \in Requests |->
            IF AtWork(r) THEN [turn[r] EXCEPT !.raced = TRUE] ELSE turn[r]]

\* Mutant: the draft follows the conversation to the other project.
CommandKeepsDraft(r) ==
  LET moves == commands[SendOf(r)] = "none" /\ About[SendOf(r)] # None
  IN /\ run > 0 /\ request[r] = "unsent"
     /\ r[2] = 2 => request[<<SendOf(r), 1>>] # "unsent"
     /\ conv' = IF moves THEN [conv EXCEPT !.project = About[SendOf(r)]] ELSE conv
     /\ turn' = IF moves THEN Raced ELSE turn
     /\ commands' = [commands EXCEPT ![SendOf(r)] = IF @ = "none" THEN "queued" ELSE @]
     /\ request' = [request EXCEPT ![r] = "queued"]
     /\ UNCHANGED <<messages, builds, busy, run, crashes>>

\* conversation_message: the command.  Asking about a block moves the conversation to the
\* block's project, without the draft of the project it leaves.
Command(r) ==
  LET s == SendOf(r)
      moves == commands[s] = "none" /\ About[s] # None /\ About[s] # conv.project
  IN /\ run > 0 /\ request[r] = "unsent"
     /\ r[2] = 2 => request[<<s, 1>>] # "unsent"
     /\ conv' = IF moves
                THEN [conv EXCEPT !.project = About[s], !.spec = NoDraft, !.offered = FALSE]
                ELSE conv
     /\ turn' = IF moves THEN Raced ELSE turn
     /\ commands' = [commands EXCEPT ![s] = IF @ = "none" THEN "queued" ELSE @]
     /\ request' = [request EXCEPT ![r] = IF commands[s] = "replayed" THEN "done" ELSE "queued"]
     /\ UNCHANGED <<messages, builds, busy, run, crashes>>

\* Director.submit recovers the conversation first.
RecoverFirst(r) ==
  /\ request[r] = "queued"
  /\ Recovered
  /\ request' = [request EXCEPT ![r] = "opening"]
  /\ UNCHANGED <<builds, commands, turn, busy, run, crashes>>

Asked(r) == [role |-> "user", of |-> r, kind |-> "message"]

\* Director.submit: the message, the thinking conversation and its owner land together; a
\* conversation still thinking refuses the message.
Open(r) ==
  /\ request[r] = "opening"
  /\ IF conv.status = "thinking"
     THEN /\ request' = [request EXCEPT ![r] = "refused"]
          /\ UNCHANGED <<conv, messages, turn, busy>>
     ELSE /\ messages' = Append(messages, Asked(r))
          /\ conv' = [conv EXCEPT !.status = "thinking", !.opened = run, !.aged = FALSE]
          /\ busy' = r
          /\ turn' = [turn EXCEPT ![r].pc = "started"]
          /\ request' = [request EXCEPT ![r] = "opened"]
  /\ UNCHANGED <<builds, commands, run, crashes>>

\* The message's transaction fails: the request does, and nothing is written.
OpenFails(r) ==
  /\ "locked" \in Faults /\ request[r] = "opening"
  /\ request' = [request EXCEPT ![r] = "refused"]
  /\ UNCHANGED <<conv, messages, builds, commands, turn, busy, run, crashes>>

\* Mutant: the request is answered and its response stays as it was stored.
AnswerUnmarked(r) ==
  /\ request[r] = "opened"
  /\ request' = [request EXCEPT ![r] = "done"]
  /\ UNCHANGED <<conv, messages, builds, commands, turn, busy, run, crashes>>

\* The stored response is marked, so that the key opens no further turn.
Mark(r) ==
  /\ request[r] = "opened"
  /\ commands' = [commands EXCEPT ![SendOf(r)] = "replayed"]
  /\ request' = [request EXCEPT ![r] = "done"]
  /\ UNCHANGED <<conv, messages, builds, turn, busy, run, crashes>>

\* It is not: the request fails, and its message is answered all the same.
MarkFails(r) ==
  /\ "locked" \in Faults /\ request[r] = "opened"
  /\ request' = [request EXCEPT ![r] = "refused"]
  /\ UNCHANGED <<conv, messages, builds, commands, turn, busy, run, crashes>>

\* conversation_project and enroll_local: the owner selects a project, or enrols one into
\* the conversation.  The agreed draft stays, now for that project.
Select(p) ==
  /\ run > 0 /\ conv.project # p
  /\ conv' = [conv EXCEPT !.project = p, !.offered = FALSE,
                          !.spec.of = IF conv.spec.agreed THEN p ELSE None]
  /\ turn' = Raced
  /\ UNCHANGED <<messages, builds, commands, request, busy, run, crashes>>

-------------------------------------------------------------------------------
(* A turn (Director._answer), one thread per message.                      *)

Step(r, from) == turn[r].pc = from /\ run > 0

Replies(r, kind) == turn' = [turn EXCEPT ![r] = [NoTurn EXCEPT !.pc = "ending", !.reply = kind]]

\* The turn reads the conversation and picks the account that answers.
Look(r) ==
  /\ Step(r, "started")
  /\ turn' = [turn EXCEPT ![r].pc = "looked", ![r].saw = conv.project]
  /\ UNCHANGED <<conv, messages, builds, commands, request, busy, run, crashes>>

\* No account is ready, it is signed out, its CLI fails or runs out of time, or anything else
\* raises before the answer is applied.
Fail(r) ==
  /\ "answer" \in Faults
  /\ Step(r, "looked")
  /\ Replies(r, "error")
  /\ UNCHANGED <<conv, messages, builds, commands, request, busy, run, crashes>>

\* Mutant: an offer leaves the selected project in place.
OfferKeepsProject(r, offer, drafts, match) ==
  [conv EXCEPT !.project = IF match # None THEN match ELSE @,
               !.spec = IF drafts THEN [agreed |-> TRUE, of |-> turn[r].saw,
                                        raced |-> turn[r].raced] ELSE @,
               !.offered = offer \/ (@ /\ match = None)]

\* What the director answered becomes the conversation's: its draft, and the project its hint
\* or the owner's words name; an offer to enrol a repository selects none.
Applied(r, offer, drafts, match) ==
  LET named == ~offer /\ match # None
      kept == IF drafts THEN [agreed |-> TRUE, of |-> turn[r].saw, raced |-> turn[r].raced]
              ELSE conv.spec
  IN [conv EXCEPT !.project = IF offer THEN None ELSE IF named THEN match ELSE @,
                  !.spec = IF named /\ kept.agreed THEN [kept EXCEPT !.of = match] ELSE kept,
                  !.offered = offer \/ (@ /\ ~named)]

Apply(r) ==
  /\ Step(r, "looked")
  /\ \E offer, drafts, wants \in BOOLEAN, match \in Projects \cup {None} :
       /\ offer => match = None
       /\ conv' = Applied(r, offer, drafts, match)
       /\ IF ~offer /\ wants /\ SendOf(r) \in Explicit
          THEN turn' = [turn EXCEPT ![r] = [NoTurn EXCEPT !.pc = "launching"]]
          ELSE Replies(r, "answer")
  /\ UNCHANGED <<messages, builds, commands, request, busy, run, crashes>>

\* Mutant: a draft launches without a selected project.
DraftAnywhere(r) ==
  /\ Step(r, "launching") /\ conv.spec.agreed
  /\ turn' = [turn EXCEPT ![r].pc = "drafted", ![r].spec = conv.spec, ![r].project = conv.project]
  /\ UNCHANGED <<conv, messages, builds, commands, request, busy, run, crashes>>

\* _launch reads the conversation, outside of a transaction.
Draft(r) ==
  /\ Step(r, "launching")
  /\ IF conv.project = None \/ ~conv.spec.agreed
     THEN Replies(r, "not started")
     ELSE turn' = [turn EXCEPT ![r].pc = "drafted", ![r].spec = conv.spec,
                               ![r].project = conv.project, ![r].offered = conv.offered]
  /\ UNCHANGED <<conv, messages, builds, commands, request, busy, run, crashes>>

\* _launch: the goal and the conversation's record of it land together.
Launch(r) ==
  /\ Step(r, "drafted")
  /\ builds' = builds \cup {[by |-> r, project |-> turn[r].project,
                             spec |-> turn[r].spec, offered |-> turn[r].offered]}
  /\ Replies(r, "started")
  /\ UNCHANGED <<conv, messages, commands, request, busy, run, crashes>>

\* The project refuses the goal: it is archived, or Arena is at work on itself.
Refuse(r) ==
  /\ "refused" \in Faults /\ Step(r, "drafted")
  /\ Replies(r, "not started")
  /\ UNCHANGED <<conv, messages, builds, commands, request, busy, run, crashes>>

\* Mutant: the goal commits before the conversation's record of it fails.
GoalWithoutRecord(r) ==
  /\ "locked" \in Faults /\ Step(r, "drafted")
  /\ builds' = builds \cup {[by |-> r, project |-> turn[r].project,
                             spec |-> turn[r].spec, offered |-> turn[r].offered]}
  /\ Replies(r, "error")
  /\ UNCHANGED <<conv, messages, commands, request, busy, run, crashes>>

\* The goal's transaction fails and is rolled back.
LaunchFails(r) ==
  /\ "locked" \in Faults /\ Step(r, "drafted")
  /\ Replies(r, "error")
  /\ UNCHANGED <<conv, messages, builds, commands, request, busy, run, crashes>>

\* The answer and the end of the turn land together.
Finish(r) ==
  /\ Step(r, "ending")
  /\ messages' = Append(messages, [role |-> "assistant", of |-> r, kind |-> turn[r].reply])
  /\ conv' = [conv EXCEPT !.status = "idle", !.opened = 0, !.aged = FALSE]
  /\ turn' = [turn EXCEPT ![r].pc = "ended"]
  /\ UNCHANGED <<builds, commands, request, busy, run, crashes>>

\* They do not: the thread ends with the conversation still thinking.
FinishFails(r) ==
  /\ "locked" \in Faults /\ Step(r, "ending")
  /\ turn' = [turn EXCEPT ![r].pc = "ended"]
  /\ UNCHANGED <<conv, messages, builds, commands, request, busy, run, crashes>>

\* _release: the turn gives up its own ownership, never a newer turn's.
Release(r) ==
  /\ Step(r, "ended")
  /\ turn' = [turn EXCEPT ![r] = [NoTurn EXCEPT !.pc = "released"]]
  /\ busy' = IF busy = r THEN None ELSE busy
  /\ UNCHANGED <<conv, messages, builds, commands, request, run, crashes>>

-------------------------------------------------------------------------------
(* The controller.                                                         *)

\* It dies with its threads and the requests it was serving.
Crash ==
  /\ "crash" \in Faults /\ run > 0 /\ crashes < MaxCrashes
  /\ run' = 0 /\ crashes' = crashes + 1
  /\ busy' = None
  /\ turn' = [r \in Requests |-> IF turn[r].pc = "none" THEN NoTurn
                                 ELSE [NoTurn EXCEPT !.pc = "released"]]
  /\ request' = [r \in Requests |-> IF request[r] \in {"never", "unsent", "done", "refused"}
                                    THEN request[r] ELSE "lost"]
  /\ UNCHANGED <<conv, messages, builds, commands>>

\* A new one starts; its own look for orphaned turns may fail.
Start ==
  /\ run = 0 /\ run' = crashes + 1
  /\ \/ /\ conv.status = "thinking"
        /\ messages' = Append(messages, Interrupted)
        /\ conv' = [conv EXCEPT !.status = "idle", !.opened = 0, !.aged = FALSE]
     \/ UNCHANGED <<messages, conv>>
  /\ UNCHANGED <<builds, commands, request, turn, busy, crashes>>

-------------------------------------------------------------------------------
Serve(r) == RecoverFirst(r) \/ Open(r) \/ OpenFails(r) \/ Mark(r) \/ MarkFails(r)

Think(r) ==
  \/ Look(r) \/ Fail(r) \/ Apply(r)
  \/ Draft(r) \/ Launch(r) \/ Refuse(r) \/ LaunchFails(r)
  \/ Finish(r) \/ FinishFails(r) \/ Release(r)

Next ==
  \/ \E p \in Selections : Select(p)
  \/ Read \/ Age
  \/ \E r \in Requests : Command(r) \/ Serve(r) \/ Think(r)
  \/ Crash \/ Start

Spec == Init /\ [][Next]_vars

\* Whatever thread can run, some thread runs; time passes, launchd restarts the controller and
\* the phone keeps reading the conversation.  The owner may never write again.
SomeThread == \E r \in Requests : Serve(r) \/ Think(r)

Fairness ==
  /\ WF_vars(SomeThread)
  /\ WF_vars(Read) /\ WF_vars(Age) /\ WF_vars(Start)

FairSpec == Spec /\ Fairness
===============================================================================
