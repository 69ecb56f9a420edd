------------------------- MODULE ConversationProperties -------------------------
(***************************************************************************)
(* What a conversation promises its owner: properties of the behaviours of *)
(* Conversations.                                                          *)
(***************************************************************************)
EXTENDS Conversations

Drafts == [of : Projects \cup {None}, agreed : BOOLEAN, raced : BOOLEAN]
Replied == {"none", "answer", "error", "started", "not started"}

Rows == [status : {"idle", "thinking"}, project : Projects \cup {None}, spec : Drafts,
         opened : Nat, aged : BOOLEAN, offered : BOOLEAN]
Messages == [role : {"user", "assistant"}, of : Requests \cup {None},
             kind : Replied \cup {"message", "interrupted"}]
Progress == {"never", "unsent", "queued", "opening", "opened", "done", "refused", "lost"}
Turns == [pc : {"none", "started", "looked", "launching", "drafted", "ending",
                "ended", "released"},
          saw : Projects \cup {None}, raced : BOOLEAN, spec : Drafts,
          project : Projects \cup {None}, offered : BOOLEAN, reply : Replied]

\* Every variable holds a value of its table, thread or process.
TypeOK ==
  /\ conv \in Rows
  /\ messages \in Seq(Messages)
  /\ builds \subseteq [by : Requests, project : Projects, spec : Drafts, offered : BOOLEAN]
  /\ commands \in [Sends -> {"none", "queued", "replayed"}]
  /\ request \in [Requests -> Progress]
  /\ turn \in [Requests -> Turns]
  /\ busy \in Requests \cup {None}
  /\ run \in Nat /\ crashes \in Nat

\* The owner's messages and the answers alternate, and the conversation is thinking exactly
\* while the last message is the owner's.
Alternating ==
  /\ \A i \in 1..Len(messages) : messages[i].role = IF i % 2 = 1 THEN "user" ELSE "assistant"
  /\ (conv.status = "thinking") = (Len(messages) % 2 = 1)

Working(r) == turn[r].pc \in {"started", "looked", "launching", "drafted", "ending"}

\* At most one turn is at work, on the message that waits for an answer, and it owns the
\* conversation: no recovery and no other message gets in before it ends.
OneTurnAtWork ==
  \A r \in Requests : Working(r) =>
    /\ conv.status = "thinking" /\ busy = r /\ messages[Len(messages)].of = r
    /\ \A q \in Requests \ {r} : ~Working(q)

\* Every message that was let in gets one answer or one error, whoever of its turn and the
\* recovery writes it, and no turn is at work on any other message than the one that waits.
OneAnswer == Alternating /\ OneTurnAtWork

\* The first request of a send was answered, and its repeat, if it came at all, was answered
\* from the log: it let no message in, started no turn and built nothing.
Settled(s) ==
  /\ request[<<s, 1>>] = "done" /\ request[<<s, 2>>] \in {"unsent", "done"}
  /\ turn[<<s, 2>>].pc = "none"
  /\ \A i \in 1..Len(messages) : messages[i].of # <<s, 2>>
  /\ \A b \in builds : b.by # <<s, 2>>

\* However requests, turns, recoveries and crashes interleave, each message the conversation let
\* in gets one answer, and a send that is repeated only after its request was answered starts
\* nothing ever after.  A send repeated before that may be let in again (OneMessagePerSend).
OneAnswerEach ==
  /\ []OneAnswer
  /\ [][\A s \in Sends : Settled(s) => Settled(s)']_vars

\* tests/control/test_conversation.py: "Transport retry does not resend": two messages of the
\* conversation are never the same send.  The key is marked in a transaction of its own after
\* the message (api.py, conversation_message), so a retry in between, or after a crash or a failed
\* mark, sends again.
OneMessagePerSend ==
  \A i, j \in 1..Len(messages) :
    messages[i].kind = "message" /\ messages[j].kind = "message" /\ i # j =>
      SendOf(messages[i].of) # SendOf(messages[j].of)

\* An error the turn itself reports says that no build was started, and none was.
ErrorsStartNothing ==
  \A i \in 1..Len(messages) : messages[i].kind = "error" =>
    \A b \in builds : b.by # messages[i].of

\* While Arena waits for the permission it asked for, nothing launches: every build followed a
\* choice of project made after the last offer.
OffersHoldBuilds == \A b \in builds : ~b.offered

\* Asking about another project's block leaves the draft behind: a build launches a draft on a
\* project it was not drawn up for only when the project was changed under the very turn that
\* drew it up.
DraftsStayHome ==
  \A b \in builds : b.spec.of \in Projects \ {b.project} => b.spec.raced

\* What is built is what the owner asked for: not what an error said was not started, not what
\* Arena still waits for permission to do, and not the draft of a project the owner left.
BuildsAreMeant == ErrorsStartNothing /\ OffersHoldBuilds /\ DraftsStayHome

\* api.py: "'build it' must never launch it on this one".
NoCrossedBuilds == \A b \in builds : b.spec.of \in Projects => b.spec.of = b.project

\* Every turn ends: the conversation does not stay thinking.
TurnsEnd == conv.status = "thinking" ~> conv.status = "idle"
===============================================================================
