-------------------------- MODULE ConversationProofs --------------------------
(***************************************************************************)
(* Proofs about Conversations, for every set of projects and messages and  *)
(* any number of controllers that die; about Routing, which finds each     *)
(* task the conversation asks for an account: for any accounts and limits; *)
(* and about Acquisition, for any campaigns and executions at once.        *)
(***************************************************************************)
EXTENDS ConversationProperties, Routing, Acquisition, TLAPS

\* While no controller runs, nothing is at work: its threads and its requests died with it.
DeadMeansQuiet ==
  run = 0 => \A r \in Requests : ~Working(r) /\ request[r] \notin {"queued", "opening", "opened"}

\* A request that has not opened its message has started no turn.
FreshTurns ==
  \A r \in Requests :
    request[r] \in {"never", "unsent", "queued", "opening"} => turn[r].pc = "none"

\* A turn that has read the conversation saw the project it still has, unless that was changed
\* under the turn.
SawOrRaced ==
  \A r \in Requests :
    turn[r].pc = "looked" => turn[r].saw = conv.project \/ turn[r].raced

\* Of the draft the conversation holds, and of the one a turn is about to launch: it belongs to
\* the selected project or was raced, and no offer waits while a project is selected.
Belongs(draft, project) == draft.of \in Projects \ {project} => draft.raced

DraftBelongs ==
  conv.project \in Projects => Belongs(conv.spec, conv.project) /\ ~conv.offered

LaunchBelongs ==
  \A r \in Requests : turn[r].pc = "drafted" =>
    /\ turn[r].project \in Projects /\ ~turn[r].offered
    /\ Belongs(turn[r].spec, turn[r].project)

\* Builds are launched by turns that have no other answer than that they started.
BuildsAnnounced ==
  \A b \in builds :
    \/ turn[b.by].pc \in {"ended", "released"}
    \/ turn[b.by].pc = "ending" /\ turn[b.by].reply = "started"

\* A turn whose error is in the conversation is over.
ErrorsAreOver ==
  \A i \in 1..Len(messages) : messages[i].kind = "error" =>
    messages[i].of \in Requests /\ turn[messages[i].of].pc \in {"ended", "released"}

\* A draft nobody agreed on is no project's.
BareDrafts == ~conv.spec.agreed => conv.spec.of = None

ConversationInvariant ==
  /\ TypeOK /\ OneAnswer
  /\ DeadMeansQuiet /\ FreshTurns
  /\ SawOrRaced /\ BareDrafts /\ DraftBelongs /\ LaunchBelongs
  /\ BuildsAnnounced /\ ErrorsAreOver /\ BuildsAreMeant

-------------------------------------------------------------------------------
(* Facts about the data *)

\* None is no request, and every request carries a send.
LEMMA RequestFacts ==
  /\ None \notin Requests
  /\ \A r \in Requests : SendOf(r) \in Sends
  BY ConversationsAssumption DEF Requests, SendOf

\* The parity of a length changes with every message.
LEMMA Parity == \A n \in Nat : (n + 1) % 2 = 1 <=> n % 2 # 1
  OBVIOUS

\* A message appended to an alternating conversation by the one whose turn it is keeps it so.
LEMMA AppendAlternates ==
  ASSUME TypeOK, Alternating, NEW m, m.role \in {"user", "assistant"},
         conv.status = "thinking" <=> m.role = "assistant",
         messages' = Append(messages, m),
         conv'.status = "thinking" <=> m.role = "user"
  PROVE  Alternating'
<1>1. messages \in Seq(Messages)
  BY DEF TypeOK
<1>2. Len(messages) \in Nat /\ Len(messages') = Len(messages) + 1
  BY <1>1
<1>3. \A i \in 1..Len(messages) : messages'[i] = messages[i]
  BY <1>1
<1>4. messages'[Len(messages) + 1] = m
  BY <1>1
<1>5. (Len(messages) + 1) % 2 = 1 <=> m.role = "user"
  BY <1>2, Parity DEF Alternating
<1>6. \A i \in 1..Len(messages') :
        messages'[i].role = IF i % 2 = 1 THEN "user" ELSE "assistant"
  <2> SUFFICES ASSUME NEW i \in 1..Len(messages')
               PROVE  messages'[i].role = IF i % 2 = 1 THEN "user" ELSE "assistant"
    OBVIOUS
  <2>1. CASE i \in 1..Len(messages)
    BY <2>1, <1>3 DEF Alternating
  <2>2. CASE i = Len(messages) + 1
    BY <2>2, <1>4, <1>5
  <2> QED BY <2>1, <2>2, <1>2
<1>7. (conv'.status = "thinking") = (Len(messages') % 2 = 1)
  BY <1>2, <1>5
<1> QED BY <1>6, <1>7 DEF Alternating

\* What a conversation holds after a message was appended.
LEMMA AppendFacts ==
  ASSUME messages \in Seq(Messages), NEW m \in Messages, messages' = Append(messages, m)
  PROVE  /\ messages' \in Seq(Messages) /\ Len(messages') = Len(messages) + 1
         /\ messages'[Len(messages')] = m
         /\ \A i \in 1..Len(messages') :
              messages'[i] = m \/ (i \in 1..Len(messages) /\ messages'[i] = messages[i])
<1>1. messages' \in Seq(Messages) /\ Len(messages') = Len(messages) + 1
  OBVIOUS
<1>2. messages'[Len(messages) + 1] = m
  OBVIOUS
<1>3. \A i \in 1..Len(messages) : messages'[i] = messages[i]
  OBVIOUS
<1>4. Len(messages) \in Nat
  OBVIOUS
<1>5. Len(messages') = Len(messages) + 1
  BY <1>1
<1>6. \A i \in 1..Len(messages') : i \in 1..Len(messages) \/ i = Len(messages) + 1
  BY <1>4, <1>5
<1>7. \A i \in 1..Len(messages') :
        messages'[i] = m \/ (i \in 1..Len(messages) /\ messages'[i] = messages[i])
  BY <1>2, <1>3, <1>6
<1>8. messages'[Len(messages')] = m
  BY <1>2, <1>5
<1> QED BY <1>1, <1>7, <1>8

\* Marking the turns at work as raced changes nothing else of them.
LEMMA RacedTurns ==
  ASSUME TypeOK, turn' = Raced \/ turn' = turn
  PROVE  /\ turn' \in [Requests -> Turns]
         /\ \A q \in Requests :
              /\ turn'[q].pc = turn[q].pc /\ turn'[q].spec = turn[q].spec
              /\ turn'[q].project = turn[q].project /\ turn'[q].offered = turn[q].offered
              /\ turn'[q].reply = turn[q].reply
              /\ turn'[q] = turn[q] \/ turn'[q].raced
              /\ turn' = Raced /\ AtWork(q) => turn'[q].raced
<1>1. \A t \in Turns :
        LET raced == [t EXCEPT !.raced = TRUE] IN
        /\ raced \in Turns /\ raced.raced
        /\ raced.pc = t.pc /\ raced.spec = t.spec /\ raced.project = t.project
        /\ raced.offered = t.offered /\ raced.reply = t.reply
  BY DEF Turns
<1>2. CASE turn' = Raced
  BY <1>1, <1>2 DEF TypeOK, Raced
<1>3. CASE turn' = turn /\ turn' # Raced
  BY <1>3 DEF TypeOK
<1> QED BY <1>2, <1>3

-------------------------------------------------------------------------------
(* What several actions have in common *)

\* The turn at work owns the conversation, in a controller that runs.
LEMMA WorkersOwn ==
  ASSUME ConversationInvariant, NEW r \in Requests, Working(r)
  PROVE  /\ conv.status = "thinking" /\ busy = r /\ run # 0
         /\ \A q \in Requests \ {r} : ~Working(q)
  BY DEF ConversationInvariant, OneAnswer, OneTurnAtWork, DeadMeansQuiet

\* A step of the turn at work that neither ends it nor writes a message.
LEMMA TurnGoesOn ==
  ASSUME ConversationInvariant, NEW r \in Requests, Working(r),
         turn'[r].pc \in {"looked", "launching", "drafted", "ending"},
         \A q \in Requests \ {r} : turn'[q] = turn[q],
         conv'.status = conv.status, UNCHANGED <<messages, request, busy, run>>
  PROVE  OneAnswer' /\ DeadMeansQuiet' /\ FreshTurns' /\ ErrorsAreOver'
<1>1. Alternating'
  BY DEF ConversationInvariant, OneAnswer, Alternating
<1>2. OneTurnAtWork'
  BY WorkersOwn DEF ConversationInvariant, OneAnswer, OneTurnAtWork, Working
<1>3. DeadMeansQuiet'
  BY WorkersOwn DEF DeadMeansQuiet
<1>4. FreshTurns'
  BY DEF ConversationInvariant, FreshTurns, Working
<1>5. ErrorsAreOver'
  BY DEF ConversationInvariant, ErrorsAreOver, Working
<1> QED BY <1>1, <1>2, <1>3, <1>4, <1>5 DEF OneAnswer

\* A step that changes neither a turn's place nor what it took from the conversation, and
\* writes no message.
LEMMA TurnsRest ==
  ASSUME ConversationInvariant,
         \A q \in Requests :
           /\ turn'[q].pc = turn[q].pc /\ turn'[q].spec = turn[q].spec
           /\ turn'[q].project = turn[q].project /\ turn'[q].offered = turn[q].offered
           /\ turn'[q].reply = turn[q].reply,
         conv'.status = conv.status, UNCHANGED <<messages, builds, busy>>
  PROVE  /\ OneAnswer' /\ LaunchBelongs'
         /\ BuildsAnnounced' /\ ErrorsAreOver' /\ BuildsAreMeant'
<1>1. OneAnswer'
  BY DEF ConversationInvariant, OneAnswer, Alternating, OneTurnAtWork, Working
<1>2. LaunchBelongs'
  BY DEF ConversationInvariant, LaunchBelongs, Belongs
<1>3. BuildsAnnounced'
  BY DEF ConversationInvariant, BuildsAnnounced, TypeOK
<1>4. ErrorsAreOver'
  BY DEF ConversationInvariant, ErrorsAreOver
<1>5. BuildsAreMeant'
  BY DEF ConversationInvariant, BuildsAreMeant, ErrorsStartNothing, OffersHoldBuilds,
         DraftsStayHome
<1> QED BY <1>1, <1>2, <1>3, <1>4, <1>5

\* Closing a turn nobody works on: the owner's message gets an error, and nothing else changes.
LEMMA ClosingIsSafe ==
  ASSUME ConversationInvariant, \A q \in Requests : ~Working(q),
         conv.status = "thinking", messages' = Append(messages, Interrupted),
         conv' = [conv EXCEPT !.status = "idle", !.opened = 0, !.aged = FALSE],
         UNCHANGED <<builds, turn, busy>>
  PROVE  /\ conv' \in Rows
         /\ messages' \in Seq(Messages)
         /\ OneAnswer' /\ SawOrRaced' /\ BareDrafts' /\ DraftBelongs' /\ LaunchBelongs'
         /\ BuildsAnnounced' /\ ErrorsAreOver' /\ BuildsAreMeant'
<1>1. conv' \in Rows
  BY DEF ConversationInvariant, TypeOK, Rows
<1>2. Interrupted \in Messages
  BY DEF Interrupted, Messages
<1>3. messages' \in Seq(Messages)
  BY <1>2 DEF ConversationInvariant, TypeOK
<1>4. conv'.status = "idle" /\ conv'.project = conv.project /\ conv'.spec = conv.spec
        /\ conv'.offered = conv.offered
  BY DEF ConversationInvariant, TypeOK, Rows
<1>5. Alternating'
  BY <1>4, AppendAlternates DEF ConversationInvariant, OneAnswer, Interrupted
<1>6. OneTurnAtWork'
  BY DEF OneTurnAtWork, Working
<1>7. \A i \in 1..Len(messages') : messages'[i].kind = "error" =>
        i \in 1..Len(messages) /\ messages'[i] = messages[i]
  BY DEF ConversationInvariant, TypeOK, Messages, Interrupted
<1>8. SawOrRaced' /\ BareDrafts' /\ DraftBelongs' /\ LaunchBelongs' /\ BuildsAnnounced'
  BY <1>4 DEF ConversationInvariant, SawOrRaced, BareDrafts, DraftBelongs, LaunchBelongs,
              BuildsAnnounced, Belongs
<1>9. ErrorsAreOver'
  BY <1>7 DEF ConversationInvariant, ErrorsAreOver
<1>10. BuildsAreMeant'
  BY <1>7 DEF ConversationInvariant, BuildsAreMeant, ErrorsStartNothing, OffersHoldBuilds,
              DraftsStayHome
<1> QED BY <1>1, <1>3, <1>5, <1>6, <1>8, <1>9, <1>10 DEF OneAnswer

-------------------------------------------------------------------------------
(* Each action keeps the invariant: the owner's requests and recovery *)

LEMMA SelectKeeps ==
  ASSUME ConversationInvariant, NEW p \in Selections, Select(p)
  PROVE  ConversationInvariant'
<1>1. p \in Projects /\ run > 0
  BY ConversationsAssumption DEF Select
<1>2. \A q \in Requests :
        /\ turn'[q].pc = turn[q].pc /\ turn'[q].spec = turn[q].spec
        /\ turn'[q].project = turn[q].project /\ turn'[q].offered = turn[q].offered
        /\ turn'[q].reply = turn[q].reply
        /\ AtWork(q) => turn'[q].raced
  BY RacedTurns DEF Select, ConversationInvariant
<1>3. conv' = [conv EXCEPT !.project = p, !.offered = FALSE, !.spec = conv'.spec]
  /\ conv'.spec = [conv.spec EXCEPT !.of = IF conv.spec.agreed THEN p ELSE None]
  BY DEF Select, ConversationInvariant, TypeOK
<1>4. conv'.project = p /\ conv'.offered = FALSE /\ conv'.status = conv.status
  BY <1>3 DEF ConversationInvariant, TypeOK, Rows
<1>5. TypeOK'
  <2>1. conv' \in Rows
    BY <1>1, <1>3 DEF ConversationInvariant, TypeOK, Rows, Drafts
  <2>2. turn' \in [Requests -> Turns]
    BY RacedTurns DEF Select, ConversationInvariant
  <2> QED BY <2>1, <2>2 DEF Select, ConversationInvariant, TypeOK
<1>6. OneAnswer' /\ LaunchBelongs' /\ BuildsAnnounced' /\ ErrorsAreOver' /\ BuildsAreMeant'
  BY <1>2, <1>4, TurnsRest DEF Select
<1>7. DeadMeansQuiet' /\ FreshTurns'
  BY <1>1, <1>2 DEF Select, ConversationInvariant, DeadMeansQuiet, FreshTurns, TypeOK
<1>8. SawOrRaced'
  BY <1>2 DEF SawOrRaced, AtWork
<1>9. BareDrafts' /\ DraftBelongs'
  BY <1>1, <1>3, <1>4, ConversationsAssumption
     DEF ConversationInvariant, TypeOK, Rows, Drafts, BareDrafts, DraftBelongs, Belongs
<1> QED BY <1>5, <1>6, <1>7, <1>8, <1>9 DEF ConversationInvariant

LEMMA CommandKeeps ==
  ASSUME ConversationInvariant, NEW r \in Requests, Command(r)
  PROVE  ConversationInvariant'
<1> DEFINE s == SendOf(r)
           moves == commands[s] = "none" /\ About[s] # None /\ About[s] # conv.project
<1>1. s \in Sends /\ (moves => About[s] \in Projects) /\ run > 0
  BY RequestFacts, ConversationsAssumption DEF Command
<1>2. \A q \in Requests :
        /\ turn'[q].pc = turn[q].pc /\ turn'[q].spec = turn[q].spec
        /\ turn'[q].project = turn[q].project /\ turn'[q].offered = turn[q].offered
        /\ turn'[q].reply = turn[q].reply
        /\ turn'[q] = turn[q] \/ turn'[q].raced
        /\ moves /\ AtWork(q) => turn'[q].raced
  BY RacedTurns DEF Command, ConversationInvariant
<1>3. conv' = IF moves
              THEN [conv EXCEPT !.project = About[s], !.spec = NoDraft, !.offered = FALSE]
              ELSE conv
  BY DEF Command
<1>4. /\ request[r] = "unsent" /\ request'[r] \in {"done", "queued"}
      /\ \A q \in Requests \ {r} : request'[q] = request[q]
  BY DEF Command, ConversationInvariant, TypeOK
<1>5. TypeOK'
  <2>1. conv' \in Rows
    BY <1>1, <1>3 DEF ConversationInvariant, TypeOK, Rows, Drafts, NoDraft
  <2>2. turn' \in [Requests -> Turns]
    BY RacedTurns DEF Command, ConversationInvariant
  <2>3. /\ commands' \in [Sends -> {"none", "queued", "replayed"}]
        /\ request' \in [Requests -> Progress]
    BY <1>1 DEF Command, ConversationInvariant, TypeOK, Progress
  <2> QED BY <2>1, <2>2, <2>3 DEF Command, ConversationInvariant, TypeOK
<1>6. OneAnswer' /\ LaunchBelongs' /\ BuildsAnnounced' /\ ErrorsAreOver' /\ BuildsAreMeant'
  <2>1. conv'.status = conv.status
    BY <1>3 DEF ConversationInvariant, TypeOK, Rows
  <2> QED BY <2>1, <1>2, TurnsRest DEF Command
<1>7. DeadMeansQuiet' /\ FreshTurns'
  BY <1>1, <1>2, <1>4 DEF Command, ConversationInvariant, DeadMeansQuiet, FreshTurns, TypeOK
<1>8. SawOrRaced'
  <2>1. CASE moves
    BY <1>2, <2>1 DEF SawOrRaced, AtWork
  <2>2. CASE ~moves
    BY <1>2, <1>3, <2>2 DEF SawOrRaced, ConversationInvariant
  <2> QED BY <2>1, <2>2
<1>9. BareDrafts' /\ DraftBelongs'
  BY <1>1, <1>3, ConversationsAssumption
     DEF ConversationInvariant, TypeOK, Rows, Drafts, NoDraft, BareDrafts, DraftBelongs, Belongs
<1> QED BY <1>5, <1>6, <1>7, <1>8, <1>9 DEF ConversationInvariant

LEMMA ReadKeeps ==
  ASSUME ConversationInvariant, Read
  PROVE  ConversationInvariant'
<1>1. \A q \in Requests : ~Working(q)
  BY WorkersOwn, RequestFacts DEF Read, Stale
<1>2. /\ conv.status = "thinking" /\ messages' = Append(messages, Interrupted)
      /\ conv' = [conv EXCEPT !.status = "idle", !.opened = 0, !.aged = FALSE]
  BY DEF Read, Recovered, Stale
<1>3. DeadMeansQuiet' /\ FreshTurns'
  BY DEF Read, ConversationInvariant, DeadMeansQuiet, FreshTurns, Working
<1> QED BY <1>1, <1>2, <1>3, ClosingIsSafe DEF Read, ConversationInvariant, TypeOK

LEMMA AgeKeeps ==
  ASSUME ConversationInvariant, Age
  PROVE  ConversationInvariant'
<1>1. /\ conv'.status = conv.status /\ conv'.project = conv.project
      /\ conv'.spec = conv.spec /\ conv'.offered = conv.offered
  BY DEF Age, ConversationInvariant, TypeOK, Rows
<1>2. TypeOK'
  BY DEF Age, ConversationInvariant, TypeOK, Rows
<1>3. OneAnswer' /\ LaunchBelongs' /\ BuildsAnnounced' /\ ErrorsAreOver' /\ BuildsAreMeant'
  BY <1>1, TurnsRest DEF Age
<1>4. DeadMeansQuiet' /\ FreshTurns' /\ SawOrRaced' /\ BareDrafts' /\ DraftBelongs'
  BY <1>1 DEF Age, ConversationInvariant, DeadMeansQuiet, FreshTurns, Working, SawOrRaced,
              BareDrafts, DraftBelongs, Belongs
<1> QED BY <1>2, <1>3, <1>4 DEF ConversationInvariant

LEMMA RecoverFirstKeeps ==
  ASSUME ConversationInvariant, NEW r \in Requests, RecoverFirst(r)
  PROVE  ConversationInvariant'
<1>1. /\ request[r] = "queued" /\ request'[r] = "opening"
      /\ \A q \in Requests \ {r} : request'[q] = request[q]
      /\ request' \in [Requests -> Progress]
  BY DEF RecoverFirst, ConversationInvariant, TypeOK, Progress
<1>2. DeadMeansQuiet' /\ FreshTurns'
  BY <1>1 DEF RecoverFirst, ConversationInvariant, DeadMeansQuiet, FreshTurns, Working
<1>3. CASE Stale
  <2>1. \A q \in Requests : ~Working(q)
    BY <1>3, WorkersOwn, RequestFacts DEF Stale
  <2>2. /\ conv.status = "thinking" /\ messages' = Append(messages, Interrupted)
        /\ conv' = [conv EXCEPT !.status = "idle", !.opened = 0, !.aged = FALSE]
    BY <1>3 DEF RecoverFirst, Recovered, Stale
  <2> QED BY <1>1, <1>2, <2>1, <2>2, ClosingIsSafe
             DEF RecoverFirst, ConversationInvariant, TypeOK
<1>4. CASE ~Stale
  <2>1. UNCHANGED <<messages, conv>>
    BY <1>4 DEF RecoverFirst, Recovered
  <2>2. OneAnswer' /\ LaunchBelongs' /\ BuildsAnnounced' /\ ErrorsAreOver'
          /\ BuildsAreMeant'
    BY <2>1, TurnsRest DEF RecoverFirst
  <2>3. SawOrRaced' /\ BareDrafts' /\ DraftBelongs'
    BY <2>1 DEF RecoverFirst, ConversationInvariant, SawOrRaced, BareDrafts, DraftBelongs, Belongs
  <2> QED BY <1>1, <1>2, <2>1, <2>2, <2>3 DEF RecoverFirst, ConversationInvariant, TypeOK
<1> QED BY <1>3, <1>4

LEMMA OpenKeeps ==
  ASSUME ConversationInvariant, NEW r \in Requests, Open(r)
  PROVE  ConversationInvariant'
<1>1. /\ request[r] = "opening" /\ request' \in [Requests -> Progress]
      /\ request'[r] \in {"refused", "opened"}
      /\ \A q \in Requests \ {r} : request'[q] = request[q]
  BY DEF Open, ConversationInvariant, TypeOK, Progress
<1>2. run # 0 /\ turn[r].pc = "none"
  BY <1>1 DEF ConversationInvariant, DeadMeansQuiet, FreshTurns
<1>3. CASE conv.status = "thinking"
  <2>1. UNCHANGED <<conv, messages, turn, busy, builds, commands, run, crashes>>
    BY <1>3 DEF Open
  <2>2. DeadMeansQuiet' /\ FreshTurns'
    BY <1>1, <1>2, <2>1 DEF ConversationInvariant, DeadMeansQuiet, FreshTurns
  <2>3. OneAnswer' /\ LaunchBelongs' /\ BuildsAnnounced' /\ ErrorsAreOver'
          /\ BuildsAreMeant'
    BY <2>1, TurnsRest
  <2>4. SawOrRaced' /\ BareDrafts' /\ DraftBelongs'
    BY <2>1 DEF ConversationInvariant, SawOrRaced, BareDrafts, DraftBelongs, Belongs
  <2> QED BY <1>1, <2>1, <2>2, <2>3, <2>4 DEF ConversationInvariant, TypeOK
<1>4. CASE conv.status # "thinking"
  <2>1. /\ messages' = Append(messages, Asked(r)) /\ busy' = r
        /\ conv' = [conv EXCEPT !.status = "thinking", !.opened = run, !.aged = FALSE]
        /\ turn' = [turn EXCEPT ![r].pc = "started"]
        /\ request'[r] = "opened" /\ UNCHANGED <<builds, commands, run, crashes>>
    BY <1>4 DEF Open, ConversationInvariant, TypeOK
  <2>2. /\ conv' \in Rows /\ conv'.status = "thinking" /\ conv'.project = conv.project
        /\ conv'.spec = conv.spec /\ conv'.offered = conv.offered
    BY <2>1 DEF ConversationInvariant, TypeOK, Rows
  <2>3. [turn[r] EXCEPT !.pc = "started"] \in Turns
          /\ [turn[r] EXCEPT !.pc = "started"].pc = "started"
    BY DEF ConversationInvariant, TypeOK, Turns
  <2>4. /\ turn' \in [Requests -> Turns] /\ turn'[r].pc = "started"
        /\ \A q \in Requests \ {r} : turn'[q] = turn[q]
    BY <2>1, <2>3 DEF ConversationInvariant, TypeOK
  <2>5. \A q \in Requests : ~Working(q)
    BY <1>4, WorkersOwn
  <2>6. Asked(r) \in Messages /\ Asked(r).role = "user" /\ Asked(r).of = r
          /\ Asked(r).kind = "message"
    BY DEF Asked, Messages
  <2>7. /\ messages' \in Seq(Messages) /\ Len(messages') = Len(messages) + 1
        /\ messages'[Len(messages')] = Asked(r)
        /\ \A i \in 1..Len(messages') :
             messages'[i] = Asked(r) \/ (i \in 1..Len(messages) /\ messages'[i] = messages[i])
    BY <2>1, <2>6, AppendFacts DEF ConversationInvariant, TypeOK
  <2>8. TypeOK'
    BY <1>1, <2>1, <2>2, <2>4, <2>7 DEF ConversationInvariant, TypeOK
  <2>9. Alternating'
    BY <1>4, <2>1, <2>2, <2>6, AppendAlternates DEF ConversationInvariant, OneAnswer
  <2>10. OneTurnAtWork'
    BY <2>1, <2>2, <2>4, <2>5, <2>6, <2>7 DEF OneTurnAtWork, Working
  <2>11. DeadMeansQuiet' /\ FreshTurns'
    BY <1>1, <1>2, <2>1, <2>4 DEF ConversationInvariant, DeadMeansQuiet, FreshTurns
  <2>12. SawOrRaced' /\ BareDrafts' /\ DraftBelongs' /\ LaunchBelongs'
    BY <2>2, <2>4 DEF ConversationInvariant, SawOrRaced, BareDrafts, DraftBelongs,
                      LaunchBelongs, Belongs
  <2>13. BuildsAnnounced'
    BY <1>2, <2>1, <2>4 DEF ConversationInvariant, BuildsAnnounced, TypeOK
  <2>14. ErrorsAreOver'
    BY <1>2, <2>4, <2>6, <2>7 DEF ConversationInvariant, ErrorsAreOver
  <2>15. BuildsAreMeant'
    BY <2>1, <2>6, <2>7 DEF ConversationInvariant, BuildsAreMeant, ErrorsStartNothing,
                            OffersHoldBuilds, DraftsStayHome
  <2> QED BY <2>8, <2>9, <2>10, <2>11, <2>12, <2>13, <2>14, <2>15
             DEF ConversationInvariant, OneAnswer
<1> QED BY <1>3, <1>4

\* A request whose message is refused or marked is done with, and nothing else moves.
LEMMA RequestEnds ==
  ASSUME ConversationInvariant, NEW r \in Requests, OpenFails(r) \/ Mark(r) \/ MarkFails(r)
  PROVE  ConversationInvariant'
<1>1. /\ request' \in [Requests -> Progress] /\ request'[r] \in {"refused", "done"}
      /\ \A q \in Requests \ {r} : request'[q] = request[q]
      /\ commands' \in [Sends -> {"none", "queued", "replayed"}]
  BY RequestFacts DEF OpenFails, Mark, MarkFails, ConversationInvariant, TypeOK, Progress
<1>2. UNCHANGED <<conv, messages, builds, turn, busy, run, crashes>>
  BY DEF OpenFails, Mark, MarkFails
<1>3. DeadMeansQuiet' /\ FreshTurns'
  BY <1>1, <1>2 DEF ConversationInvariant, DeadMeansQuiet, FreshTurns, Working
<1>4. OneAnswer' /\ LaunchBelongs' /\ BuildsAnnounced' /\ ErrorsAreOver' /\ BuildsAreMeant'
  BY <1>2, TurnsRest
<1>5. SawOrRaced' /\ BareDrafts' /\ DraftBelongs'
  BY <1>2 DEF ConversationInvariant, SawOrRaced, BareDrafts, DraftBelongs, Belongs
<1> QED BY <1>1, <1>2, <1>3, <1>4, <1>5 DEF ConversationInvariant, TypeOK

-------------------------------------------------------------------------------
(* The steps of a turn *)

\* What a turn is that is about to give its answer.
LEMMA RepliesFacts ==
  ASSUME TypeOK, NEW r \in Requests, NEW kind \in Replied, Replies(r, kind)
  PROVE  \E w \in Turns : /\ turn' = [turn EXCEPT ![r] = w]
                          /\ w.pc = "ending" /\ w.reply = kind
<1> DEFINE w == [NoTurn EXCEPT !.pc = "ending", !.reply = kind]
<1>1. w \in Turns /\ w.pc = "ending" /\ w.reply = kind
  BY DEF NoTurn, NoDraft, Turns, Drafts
<1> QED BY <1>1 DEF Replies

\* A turn that steps on to any place but "drafted", leaving the conversation as it is.
LEMMA TurnSteps ==
  ASSUME ConversationInvariant, NEW r \in Requests, Working(r),
         NEW w \in Turns, w.pc \in {"looked", "launching", "ending"},
         w.pc = "looked" => w.saw = conv.project,
         turn' = [turn EXCEPT ![r] = w],
         \A b \in builds : b.by # r,
         UNCHANGED <<conv, messages, builds, commands, request, busy, run, crashes>>
  PROVE  ConversationInvariant'
<1>1. \A q \in Requests : turn'[q] = IF q = r THEN w ELSE turn[q]
  BY DEF ConversationInvariant, TypeOK
<1>2. TypeOK'
  BY DEF ConversationInvariant, TypeOK
<1>3. OneAnswer' /\ DeadMeansQuiet' /\ FreshTurns' /\ ErrorsAreOver'
  BY <1>1, TurnGoesOn
<1>4. SawOrRaced' /\ BareDrafts' /\ DraftBelongs' /\ LaunchBelongs'
  BY <1>1 DEF ConversationInvariant, SawOrRaced, BareDrafts, DraftBelongs, LaunchBelongs, Belongs
<1>5. BuildsAnnounced'
  BY <1>1 DEF ConversationInvariant, BuildsAnnounced, TypeOK
<1>6. BuildsAreMeant'
  BY DEF ConversationInvariant, BuildsAreMeant, ErrorsStartNothing, OffersHoldBuilds,
         DraftsStayHome
<1> QED BY <1>2, <1>3, <1>4, <1>5, <1>6 DEF ConversationInvariant

\* Before its answer is due, a turn has built nothing.
LEMMA NothingBuiltYet ==
  ASSUME ConversationInvariant, NEW r \in Requests,
         turn[r].pc \in {"started", "looked", "launching", "drafted"}
  PROVE  Working(r) /\ \A b \in builds : b.by # r
  BY DEF ConversationInvariant, BuildsAnnounced, Working

\* A turn that gives up goes to its end.
LEMMA TurnGivesUp ==
  ASSUME ConversationInvariant, NEW r \in Requests,
         turn[r].pc \in {"started", "looked", "launching", "drafted"},
         NEW kind \in Replied, Replies(r, kind),
         UNCHANGED <<conv, messages, builds, commands, request, busy, run, crashes>>
  PROVE  ConversationInvariant'
<1>1. PICK w \in Turns : turn' = [turn EXCEPT ![r] = w] /\ w.pc = "ending"
  BY RepliesFacts DEF ConversationInvariant
<1> QED BY <1>1, NothingBuiltYet, TurnSteps

LEMMA LookKeeps ==
  ASSUME ConversationInvariant, NEW r \in Requests, Look(r)
  PROVE  ConversationInvariant'
<1> DEFINE w == [turn[r] EXCEPT !.pc = "looked", !.saw = conv.project]
<1>1. turn[r].pc = "started" /\ turn' = [turn EXCEPT ![r] = w]
  BY DEF Look, Step, ConversationInvariant, TypeOK
<1>2. w \in Turns /\ w.pc = "looked" /\ w.saw = conv.project
  BY ZenonT(40) DEF ConversationInvariant, TypeOK, Turns, Rows
<1>3. UNCHANGED <<conv, messages, builds, commands, request, busy, run, crashes>>
  BY DEF Look
<1> HIDE DEF w
<1> QED BY <1>1, <1>2, <1>3, NothingBuiltYet, TurnSteps

LEMMA TurnsThatFail ==
  ASSUME ConversationInvariant, NEW r \in Requests,
         Fail(r) \/ Refuse(r) \/ LaunchFails(r)
  PROVE  ConversationInvariant'
<1>1. /\ turn[r].pc \in {"looked", "drafted"}
      /\ Replies(r, "error") \/ Replies(r, "not started")
      /\ UNCHANGED <<conv, messages, builds, commands, request, busy, run, crashes>>
  BY DEF Fail, Refuse, LaunchFails, Step
<1>2. "error" \in Replied /\ "not started" \in Replied
  BY DEF Replied
<1> QED BY <1>1, <1>2, TurnGivesUp

LEMMA ApplyKeeps ==
  ASSUME ConversationInvariant, NEW r \in Requests, Apply(r)
  PROVE  ConversationInvariant'
<1>1. PICK offer \in BOOLEAN, drafts \in BOOLEAN, match \in Projects \cup {None} :
        /\ offer => match = None
        /\ conv' = Applied(r, offer, drafts, match)
        /\ \/ turn' = [turn EXCEPT ![r] = [NoTurn EXCEPT !.pc = "launching"]]
           \/ Replies(r, "answer")
  BY DEF Apply
<1>2. turn[r].pc = "looked"
        /\ UNCHANGED <<messages, builds, commands, request, busy, run, crashes>>
  BY DEF Apply, Step
<1>3. PICK w \in Turns : turn' = [turn EXCEPT ![r] = w] /\ w.pc \in {"launching", "ending"}
  <2>1. CASE Replies(r, "answer")
    BY <2>1, RepliesFacts DEF ConversationInvariant, Replied
  <2>2. CASE turn' = [turn EXCEPT ![r] = [NoTurn EXCEPT !.pc = "launching"]]
    <3>1. /\ [NoTurn EXCEPT !.pc = "launching"] \in Turns
          /\ [NoTurn EXCEPT !.pc = "launching"].pc = "launching"
      BY DEF NoTurn, NoDraft, Turns, Drafts, Replied
    <3> QED BY <2>2, <3>1
  <2> QED BY <1>1, <2>1, <2>2
<1>4. Working(r) /\ (\A q \in Requests \ {r} : ~Working(q)) /\ \A b \in builds : b.by # r
  BY <1>2, NothingBuiltYet, WorkersOwn
<1>5. turn'[r] = w /\ \A q \in Requests \ {r} : turn'[q] = turn[q]
  BY <1>3 DEF ConversationInvariant, TypeOK
<1> DEFINE drawn == [agreed |-> TRUE, of |-> turn[r].saw, raced |-> turn[r].raced]
           kept == IF drafts THEN drawn ELSE conv.spec
           named == ~offer /\ match # None
<1>6. /\ drawn \in Drafts /\ kept \in Drafts /\ [kept EXCEPT !.of = match] \in Drafts
      /\ [kept EXCEPT !.of = match].of = match
      /\ [kept EXCEPT !.of = match].agreed = kept.agreed
  BY DEF ConversationInvariant, TypeOK, Rows, Drafts, Turns
<1>7. /\ conv' \in Rows /\ conv'.status = conv.status
      /\ conv'.project = IF offer THEN None ELSE IF named THEN match ELSE conv.project
      /\ conv'.spec = IF named /\ kept.agreed THEN [kept EXCEPT !.of = match] ELSE kept
      /\ conv'.offered = (offer \/ (conv.offered /\ ~named))
  BY <1>1, <1>6 DEF Applied, ConversationInvariant, TypeOK, Rows
<1>8. TypeOK'
  BY <1>2, <1>3, <1>7 DEF ConversationInvariant, TypeOK
<1>9. OneAnswer' /\ DeadMeansQuiet' /\ FreshTurns' /\ ErrorsAreOver'
  BY <1>2, <1>3, <1>4, <1>5, <1>7, TurnGoesOn
<1>10. SawOrRaced' /\ LaunchBelongs'
  BY <1>3, <1>4, <1>5 DEF SawOrRaced, LaunchBelongs, Working
<1>11. BareDrafts'
  BY <1>6, <1>7 DEF ConversationInvariant, BareDrafts
<1>12. DraftBelongs'
  <2> SUFFICES ASSUME conv'.project \in Projects
               PROVE  Belongs(conv'.spec, conv'.project) /\ ~conv'.offered
    BY DEF DraftBelongs, Belongs
  <2>1. ~offer
    BY <1>7, ConversationsAssumption
  <2>2. CASE named
    BY <1>6, <1>7, <2>1, <2>2, ConversationsAssumption
       DEF Belongs, ConversationInvariant, BareDrafts
  <2>3. CASE ~named
    <3>1. conv'.project = conv.project /\ conv'.spec = kept /\ conv'.offered = conv.offered
      BY <1>7, <2>1, <2>3 DEF ConversationInvariant, TypeOK, Rows
    <3>2. turn[r].saw = conv.project \/ turn[r].raced
      BY <1>2 DEF ConversationInvariant, SawOrRaced
    <3> QED BY <3>1, <3>2 DEF ConversationInvariant, DraftBelongs, Belongs
  <2> QED BY <2>2, <2>3
<1>13. BuildsAnnounced'
  BY <1>2, <1>4, <1>5 DEF ConversationInvariant, BuildsAnnounced, TypeOK
<1>14. BuildsAreMeant'
  BY <1>2 DEF ConversationInvariant, BuildsAreMeant, ErrorsStartNothing, OffersHoldBuilds,
              DraftsStayHome
<1> QED BY <1>8, <1>9, <1>10, <1>11, <1>12, <1>13, <1>14 DEF ConversationInvariant

LEMMA DraftKeeps ==
  ASSUME ConversationInvariant, NEW r \in Requests, Draft(r)
  PROVE  ConversationInvariant'
<1>1. /\ turn[r].pc = "launching"
      /\ UNCHANGED <<conv, messages, builds, commands, request, busy, run, crashes>>
  BY DEF Draft, Step
<1>2. CASE conv.project = None \/ ~conv.spec.agreed
  <2>1. Replies(r, "not started") /\ "not started" \in Replied
    BY <1>2 DEF Draft, Replied
  <2> QED BY <1>1, <2>1, TurnGivesUp
<1>3. CASE ~(conv.project = None \/ ~conv.spec.agreed)
  <2> DEFINE w == [turn[r] EXCEPT !.pc = "drafted", !.spec = conv.spec,
                                  !.project = conv.project, !.offered = conv.offered]
  <2>1. turn' = [turn EXCEPT ![r] = w]
    BY <1>3 DEF Draft, ConversationInvariant, TypeOK
  <2>2. /\ w \in Turns /\ w.pc = "drafted" /\ w.spec = conv.spec
        /\ w.project = conv.project /\ w.offered = conv.offered
    BY ZenonT(40) DEF ConversationInvariant, TypeOK, Turns, Rows
  <2> HIDE DEF w
  <2>3. turn'[r] = w /\ \A q \in Requests \ {r} : turn'[q] = turn[q]
    BY <2>1 DEF ConversationInvariant, TypeOK
  <2>4. TypeOK'
    BY <1>1, <2>1, <2>2 DEF ConversationInvariant, TypeOK
  <2>5. Working(r) /\ \A b \in builds : b.by # r
    BY <1>1, NothingBuiltYet
  <2>6. OneAnswer' /\ DeadMeansQuiet' /\ FreshTurns' /\ ErrorsAreOver'
    BY <1>1, <2>2, <2>3, <2>5, TurnGoesOn
  <2>7. SawOrRaced' /\ BareDrafts' /\ DraftBelongs'
    BY <1>1, <2>2, <2>3
       DEF ConversationInvariant, SawOrRaced, BareDrafts, DraftBelongs, Belongs
  <2>8. conv.project \in Projects
    BY <1>3 DEF ConversationInvariant, TypeOK, Rows
  <2>9. LaunchBelongs'
    BY <2>2, <2>3, <2>8 DEF ConversationInvariant, LaunchBelongs, DraftBelongs, Belongs
  <2>10. BuildsAnnounced'
    BY <1>1, <2>3, <2>5 DEF ConversationInvariant, BuildsAnnounced, TypeOK
  <2>11. BuildsAreMeant'
    BY <1>1 DEF ConversationInvariant, BuildsAreMeant, ErrorsStartNothing, OffersHoldBuilds,
                DraftsStayHome
  <2> QED BY <2>4, <2>6, <2>7, <2>9, <2>10, <2>11 DEF ConversationInvariant
<1> QED BY <1>2, <1>3

LEMMA LaunchKeeps ==
  ASSUME ConversationInvariant, NEW r \in Requests, Launch(r)
  PROVE  ConversationInvariant'
<1> DEFINE b == [by |-> r, project |-> turn[r].project,
                 spec |-> turn[r].spec, offered |-> turn[r].offered]
<1>1. /\ turn[r].pc = "drafted" /\ builds' = builds \cup {b} /\ Replies(r, "started")
      /\ UNCHANGED <<conv, messages, commands, request, busy, run, crashes>>
  BY DEF Launch, Step
<1>2. PICK w \in Turns : turn' = [turn EXCEPT ![r] = w] /\ w.pc = "ending" /\ w.reply = "started"
  BY <1>1, RepliesFacts DEF ConversationInvariant, Replied
<1>3. turn'[r] = w /\ \A q \in Requests \ {r} : turn'[q] = turn[q]
  BY <1>2 DEF ConversationInvariant, TypeOK
<1>4. Working(r)
  BY <1>1 DEF Working
<1>5. /\ turn[r].project \in Projects /\ ~turn[r].offered
      /\ Belongs(turn[r].spec, turn[r].project)
  BY <1>1 DEF ConversationInvariant, LaunchBelongs
<1>6. b \in [by : Requests, project : Projects, spec : Drafts, offered : BOOLEAN]
  BY <1>5 DEF ConversationInvariant, TypeOK, Turns
<1>7. TypeOK'
  BY <1>1, <1>2, <1>6 DEF ConversationInvariant, TypeOK
<1>8. OneAnswer' /\ DeadMeansQuiet' /\ FreshTurns' /\ ErrorsAreOver'
  BY <1>1, <1>2, <1>3, <1>4, TurnGoesOn
<1>9. SawOrRaced' /\ BareDrafts' /\ DraftBelongs' /\ LaunchBelongs'
  BY <1>1, <1>2, <1>3 DEF ConversationInvariant, SawOrRaced, BareDrafts, DraftBelongs,
                          LaunchBelongs, Belongs
<1>10. BuildsAnnounced'
  BY <1>1, <1>2, <1>3 DEF ConversationInvariant, BuildsAnnounced, TypeOK
<1>11. \A i \in 1..Len(messages) : messages[i].kind = "error" => messages[i].of # r
  BY <1>1 DEF ConversationInvariant, ErrorsAreOver
<1>12. ErrorsStartNothing'
  BY <1>1, <1>11 DEF ConversationInvariant, BuildsAreMeant, ErrorsStartNothing
<1>13. OffersHoldBuilds' /\ DraftsStayHome'
  BY <1>1, <1>5 DEF ConversationInvariant, BuildsAreMeant, OffersHoldBuilds, DraftsStayHome, Belongs
<1> QED BY <1>7, <1>8, <1>9, <1>10, <1>12, <1>13 DEF ConversationInvariant, BuildsAreMeant

LEMMA FinishKeeps ==
  ASSUME ConversationInvariant, NEW r \in Requests, Finish(r)
  PROVE  ConversationInvariant'
<1> DEFINE m == [role |-> "assistant", of |-> r, kind |-> turn[r].reply]
<1>1. /\ turn[r].pc = "ending" /\ run > 0 /\ messages' = Append(messages, m)
      /\ conv' = [conv EXCEPT !.status = "idle", !.opened = 0, !.aged = FALSE]
      /\ turn' = [turn EXCEPT ![r].pc = "ended"]
      /\ UNCHANGED <<builds, commands, request, busy, run, crashes>>
  BY DEF Finish, Step
<1>2. conv.status = "thinking" /\ \A q \in Requests \ {r} : ~Working(q)
  BY <1>1, WorkersOwn DEF Working
<1>3. /\ conv' \in Rows /\ conv'.status = "idle" /\ conv'.project = conv.project
      /\ conv'.spec = conv.spec /\ conv'.offered = conv.offered
  BY <1>1 DEF ConversationInvariant, TypeOK, Rows
<1>4. [turn[r] EXCEPT !.pc = "ended"] \in Turns /\ [turn[r] EXCEPT !.pc = "ended"].pc = "ended"
  BY DEF ConversationInvariant, TypeOK, Turns
<1>5. /\ turn' \in [Requests -> Turns] /\ turn'[r].pc = "ended"
      /\ \A q \in Requests \ {r} : turn'[q] = turn[q]
  BY <1>1, <1>4 DEF ConversationInvariant, TypeOK
<1>6. m \in Messages
  BY DEF ConversationInvariant, TypeOK, Turns, Messages
<1>7. /\ messages' \in Seq(Messages)
      /\ \A i \in 1..Len(messages') :
           messages'[i] = m \/ (i \in 1..Len(messages) /\ messages'[i] = messages[i])
  BY <1>1, <1>6, AppendFacts DEF ConversationInvariant, TypeOK
<1>8. TypeOK'
  BY <1>1, <1>3, <1>5, <1>7 DEF ConversationInvariant, TypeOK
<1>9. Alternating'
  BY <1>1, <1>2, <1>3, AppendAlternates DEF ConversationInvariant, OneAnswer
<1>10. OneTurnAtWork' /\ DeadMeansQuiet'
  BY <1>1, <1>2, <1>5 DEF OneTurnAtWork, DeadMeansQuiet, Working
<1>11. FreshTurns' /\ SawOrRaced' /\ BareDrafts' /\ DraftBelongs' /\ LaunchBelongs'
  BY <1>1, <1>3, <1>5 DEF ConversationInvariant, FreshTurns, SawOrRaced, BareDrafts,
                          DraftBelongs, LaunchBelongs, Belongs
<1>12. BuildsAnnounced'
  BY <1>1, <1>5 DEF ConversationInvariant, BuildsAnnounced, TypeOK
<1>13. ErrorsAreOver'
  BY <1>5, <1>7 DEF ConversationInvariant, ErrorsAreOver
<1>14. m.kind = "error" => \A b \in builds : b.by # r
  BY <1>1 DEF ConversationInvariant, BuildsAnnounced
<1>15. BuildsAreMeant'
  BY <1>1, <1>7, <1>14 DEF ConversationInvariant, BuildsAreMeant, ErrorsStartNothing,
                           OffersHoldBuilds, DraftsStayHome
<1> QED BY <1>8, <1>9, <1>10, <1>11, <1>12, <1>13, <1>15
           DEF ConversationInvariant, OneAnswer

\* A turn that is over, whether it could say so or not, and its thread's last step.
LEMMA TurnEnds ==
  ASSUME ConversationInvariant, NEW r \in Requests, FinishFails(r) \/ Release(r)
  PROVE  ConversationInvariant'
<1>1. /\ turn[r].pc \in {"ending", "ended"} /\ run > 0
      /\ UNCHANGED <<conv, messages, builds, commands, request, run, crashes>>
  BY DEF FinishFails, Release, Step
<1>2. busy' = busy \/ (busy' = None /\ busy = r /\ turn[r].pc = "ended")
  BY DEF FinishFails, Release, Step
<1>3. PICK w \in Turns : turn' = [turn EXCEPT ![r] = w] /\ w.pc \in {"ended", "released"}
  <2>1. CASE FinishFails(r)
    <3>1. /\ [turn[r] EXCEPT !.pc = "ended"] \in Turns
          /\ [turn[r] EXCEPT !.pc = "ended"].pc = "ended"
          /\ turn' = [turn EXCEPT ![r] = [turn[r] EXCEPT !.pc = "ended"]]
      BY <2>1 DEF FinishFails, ConversationInvariant, TypeOK, Turns
    <3> QED BY <3>1
  <2>2. CASE Release(r)
    <3>1. /\ [NoTurn EXCEPT !.pc = "released"] \in Turns
          /\ [NoTurn EXCEPT !.pc = "released"].pc = "released"
      BY DEF NoTurn, NoDraft, Turns, Drafts, Replied
    <3> QED BY <2>2, <3>1 DEF Release
  <2> QED BY <2>1, <2>2
<1>4. turn'[r] = w /\ \A q \in Requests \ {r} : turn'[q] = turn[q]
  BY <1>3 DEF ConversationInvariant, TypeOK
<1>5. TypeOK'
  BY <1>1, <1>2, <1>3 DEF ConversationInvariant, TypeOK
<1>6. OneAnswer'
  BY <1>1, <1>2, <1>3, <1>4
     DEF ConversationInvariant, OneAnswer, Alternating, OneTurnAtWork, Working
<1>7. DeadMeansQuiet' /\ FreshTurns'
  BY <1>1, <1>3, <1>4 DEF ConversationInvariant, DeadMeansQuiet, FreshTurns
<1>8. SawOrRaced' /\ BareDrafts' /\ DraftBelongs' /\ LaunchBelongs'
  BY <1>1, <1>3, <1>4 DEF ConversationInvariant, SawOrRaced, BareDrafts, DraftBelongs,
                          LaunchBelongs, Belongs
<1>9. BuildsAnnounced' /\ ErrorsAreOver'
  BY <1>1, <1>3, <1>4 DEF ConversationInvariant, BuildsAnnounced, ErrorsAreOver, TypeOK
<1>10. BuildsAreMeant'
  BY <1>1 DEF ConversationInvariant, BuildsAreMeant, ErrorsStartNothing, OffersHoldBuilds,
              DraftsStayHome
<1> QED BY <1>5, <1>6, <1>7, <1>8, <1>9, <1>10 DEF ConversationInvariant

-------------------------------------------------------------------------------
(* The controller *)

LEMMA CrashKeeps ==
  ASSUME ConversationInvariant, Crash
  PROVE  ConversationInvariant'
<1>1. run' = 0 /\ busy' = None /\ crashes' = crashes + 1
        /\ UNCHANGED <<conv, messages, builds, commands>>
  BY DEF Crash
<1>2. /\ turn' \in [Requests -> Turns]
      /\ \A q \in Requests : turn'[q].pc = IF turn[q].pc = "none" THEN "none" ELSE "released"
  <2>1. /\ NoTurn \in Turns /\ NoTurn.pc = "none"
        /\ [NoTurn EXCEPT !.pc = "released"] \in Turns
        /\ [NoTurn EXCEPT !.pc = "released"].pc = "released"
    BY DEF NoTurn, NoDraft, Turns, Drafts, Replied
  <2> QED BY <2>1 DEF Crash
<1>3. /\ request' \in [Requests -> Progress]
      /\ \A q \in Requests :
           request'[q] = IF request[q] \in {"never", "unsent", "done", "refused"}
                         THEN request[q] ELSE "lost"
  BY DEF Crash, ConversationInvariant, TypeOK, Progress
<1>4. TypeOK'
  BY <1>1, <1>2, <1>3 DEF ConversationInvariant, TypeOK
<1>5. OneAnswer' /\ DeadMeansQuiet'
  BY <1>1, <1>2, <1>3 DEF ConversationInvariant, OneAnswer, Alternating, OneTurnAtWork,
                          DeadMeansQuiet, Working
<1>6. FreshTurns' /\ SawOrRaced' /\ BareDrafts' /\ DraftBelongs' /\ LaunchBelongs'
  BY <1>1, <1>2, <1>3 DEF ConversationInvariant, FreshTurns, SawOrRaced, BareDrafts,
                          DraftBelongs, LaunchBelongs, Belongs
<1>7. BuildsAnnounced' /\ ErrorsAreOver'
  BY <1>1, <1>2 DEF ConversationInvariant, BuildsAnnounced, ErrorsAreOver, TypeOK
<1>8. BuildsAreMeant'
  BY <1>1 DEF ConversationInvariant, BuildsAreMeant, ErrorsStartNothing, OffersHoldBuilds,
              DraftsStayHome
<1> QED BY <1>4, <1>5, <1>6, <1>7, <1>8 DEF ConversationInvariant

LEMMA StartKeeps ==
  ASSUME ConversationInvariant, Start
  PROVE  ConversationInvariant'
<1>1. run = 0 /\ run' = crashes + 1 /\ UNCHANGED <<builds, commands, request, turn, busy, crashes>>
  BY DEF Start
<1>2. \A q \in Requests : ~Working(q)
  BY <1>1 DEF ConversationInvariant, DeadMeansQuiet
<1>3. run' \in Nat /\ DeadMeansQuiet' /\ FreshTurns'
  BY <1>1 DEF ConversationInvariant, DeadMeansQuiet, FreshTurns, TypeOK
<1>4. CASE UNCHANGED <<messages, conv>>
  <2>1. OneAnswer' /\ LaunchBelongs' /\ BuildsAnnounced' /\ ErrorsAreOver'
          /\ BuildsAreMeant'
    BY <1>1, <1>4, TurnsRest
  <2>2. SawOrRaced' /\ BareDrafts' /\ DraftBelongs'
    BY <1>1, <1>4 DEF ConversationInvariant, SawOrRaced, BareDrafts, DraftBelongs, Belongs
  <2> QED BY <1>1, <1>3, <1>4, <2>1, <2>2 DEF ConversationInvariant, TypeOK
<1>5. CASE /\ conv.status = "thinking" /\ messages' = Append(messages, Interrupted)
           /\ conv' = [conv EXCEPT !.status = "idle", !.opened = 0, !.aged = FALSE]
  BY <1>1, <1>2, <1>3, <1>5, ClosingIsSafe DEF ConversationInvariant, TypeOK
<1> QED BY <1>4, <1>5 DEF Start

-------------------------------------------------------------------------------
(* The theorems *)

LEMMA InitHolds ==
  ASSUME Init
  PROVE  ConversationInvariant
<1>1. /\ conv = [status |-> "idle", project |-> None, spec |-> NoDraft, opened |-> 0,
                 aged |-> FALSE, offered |-> FALSE]
      /\ messages = <<>> /\ builds = {} /\ commands = [s \in Sends |-> "none"]
      /\ turn = [r \in Requests |-> NoTurn] /\ busy = None /\ run = 1 /\ crashes = 0
  BY DEF Init
<1>2. PICK made \in Made :
        request = [r \in Requests |-> IF r \in made THEN "unsent" ELSE "never"]
  BY DEF Init
<1>3. NoTurn \in Turns /\ NoTurn.pc = "none" /\ NoDraft \in Drafts
  BY DEF NoTurn, NoDraft, Turns, Drafts, Replied
<1>4. TypeOK
  BY <1>1, <1>2, <1>3 DEF TypeOK, Rows, Messages, Progress
<1>5. OneAnswer
  BY <1>1, <1>3 DEF OneAnswer, Alternating, OneTurnAtWork, Working
<1>6. DeadMeansQuiet /\ FreshTurns /\ SawOrRaced /\ BareDrafts /\ DraftBelongs /\ LaunchBelongs
  BY <1>1, <1>2, <1>3, ConversationsAssumption
     DEF DeadMeansQuiet, FreshTurns, SawOrRaced, BareDrafts, DraftBelongs, LaunchBelongs, NoDraft
<1>7. BuildsAnnounced /\ ErrorsAreOver /\ BuildsAreMeant
  BY <1>1 DEF BuildsAnnounced, ErrorsAreOver, BuildsAreMeant, ErrorsStartNothing,
              OffersHoldBuilds, DraftsStayHome
<1> QED BY <1>4, <1>5, <1>6, <1>7 DEF ConversationInvariant

LEMMA StepKeeps ==
  ASSUME ConversationInvariant, [Next]_vars
  PROVE  ConversationInvariant'
<1>1. CASE \E p \in Selections : Select(p)
  BY <1>1, SelectKeeps
<1>2. CASE Read \/ Age
  BY <1>2, ReadKeeps, AgeKeeps
<1>3. CASE \E r \in Requests : Command(r) \/ Serve(r)
  BY <1>3, CommandKeeps, RecoverFirstKeeps, OpenKeeps, RequestEnds DEF Serve
<1>4. CASE \E r \in Requests : Think(r)
  BY <1>4, LookKeeps, ApplyKeeps, DraftKeeps, LaunchKeeps, TurnsThatFail, FinishKeeps, TurnEnds
     DEF Think
<1>5. CASE Crash \/ Start
  BY <1>5, CrashKeeps, StartKeeps
<1>6. CASE UNCHANGED vars
  <2>1. OneAnswer' /\ LaunchBelongs' /\ BuildsAnnounced' /\ ErrorsAreOver'
          /\ BuildsAreMeant'
    BY <1>6, TurnsRest DEF vars
  <2>2. TypeOK' /\ DeadMeansQuiet' /\ FreshTurns' /\ SawOrRaced' /\ BareDrafts' /\ DraftBelongs'
    BY <1>6 DEF vars, ConversationInvariant, TypeOK, DeadMeansQuiet, FreshTurns, Working,
                SawOrRaced, BareDrafts, DraftBelongs, Belongs
  <2> QED BY <2>1, <2>2 DEF ConversationInvariant
<1> QED BY <1>1, <1>2, <1>3, <1>4, <1>5, <1>6 DEF Next

\* The inductive invariant holds in every state a conversation can be in.
THEOREM ConversationInvariantHolds == Spec => []ConversationInvariant
  BY InitHolds, StepKeeps, PTL DEF Spec

\* Every column, message and thread holds a value of its type.
THEOREM ConversationTypeCorrect == Spec => []TypeOK
<1>1. ConversationInvariant => TypeOK
  BY DEF ConversationInvariant
<1> QED BY <1>1, ConversationInvariantHolds, PTL

-------------------------------------------------------------------------------
(* Repeated sends *)

\* A request that was answered left its send's key marked.
DoneIsMarked == \A r \in Requests : request[r] = "done" => commands[SendOf(r)] = "replayed"

LEMMA MarksStay ==
  ASSUME ConversationInvariant, DoneIsMarked, [Next]_vars
  PROVE  DoneIsMarked'
<1>1. \A q \in Requests : SendOf(q) \in Sends
  BY RequestFacts
<1>2. request \in [Requests -> Progress] /\ commands \in [Sends -> {"none", "queued", "replayed"}]
  BY DEF ConversationInvariant, TypeOK
<1>3. CASE UNCHANGED <<request, commands>>
  BY <1>3 DEF DoneIsMarked
<1>4. ASSUME NEW r \in Requests, Command(r)
      PROVE  DoneIsMarked'
  BY <1>1, <1>2, <1>4 DEF Command, DoneIsMarked
<1>5. ASSUME NEW r \in Requests, Serve(r)
      PROVE  DoneIsMarked'
  BY <1>1, <1>2, <1>5 DEF Serve, RecoverFirst, Open, OpenFails, Mark, MarkFails, DoneIsMarked
<1>6. CASE Crash
  BY <1>2, <1>6 DEF Crash, DoneIsMarked
<1>7. ASSUME NEW r \in Requests, Think(r)
      PROVE  UNCHANGED <<request, commands>>
  BY <1>7 DEF Think, Look, Fail, Apply, Draft, Launch, Refuse, LaunchFails, Finish, FinishFails,
              Release
<1> QED BY <1>3, <1>4, <1>5, <1>6, <1>7 DEF Next, vars, Select, Read, Age, Start

\* A step that leaves a send's requests alone and adds no message or build of its repeat leaves
\* it settled.
LEMMA SettledRests ==
  ASSUME ConversationInvariant, NEW s \in Sends, Settled(s),
         request'[<<s, 1>>] = "done", request'[<<s, 2>>] \in {"unsent", "done"},
         turn'[<<s, 2>>].pc = "none",
         messages' = messages \/ \E m \in Messages : m.of # <<s, 2>> /\ messages' = Append(messages, m),
         \A b \in builds' \ builds : b.by # <<s, 2>>
  PROVE  Settled(s)'
<1>1. messages \in Seq(Messages)
  BY DEF ConversationInvariant, TypeOK
<1>2. \A i \in 1..Len(messages') : messages'[i].of # <<s, 2>>
  <2>1. CASE messages' = messages
    BY <2>1 DEF Settled
  <2>2. ASSUME NEW m \in Messages, m.of # <<s, 2>>, messages' = Append(messages, m)
        PROVE  \A i \in 1..Len(messages') : messages'[i].of # <<s, 2>>
    BY <1>1, <2>2, AppendFacts DEF Settled
  <2> QED BY <2>1, <2>2
<1> QED BY <1>2 DEF Settled

\* Once settled, a send starts nothing.
LEMMA SettledStays ==
  ASSUME ConversationInvariant, DoneIsMarked, [Next]_vars, NEW s \in Sends, Settled(s)
  PROVE  Settled(s)'
<1> DEFINE one == <<s, 1>>
           two == <<s, 2>>
<1>1. /\ one \in Requests /\ two \in Requests /\ SendOf(one) = s /\ SendOf(two) = s
      /\ two # None
  BY RequestFacts DEF Requests, SendOf
<1>2. /\ request[one] = "done" /\ request[two] \in {"unsent", "done"} /\ turn[two].pc = "none"
      /\ commands[s] = "replayed"
  BY <1>1 DEF Settled, DoneIsMarked
<1>3. /\ request \in [Requests -> Progress] /\ turn \in [Requests -> Turns]
      /\ Interrupted \in Messages /\ Interrupted.of # two
  BY <1>1 DEF ConversationInvariant, TypeOK, Interrupted, Messages
<1>4. CASE UNCHANGED <<request, turn, messages, builds>>
  BY <1>2, <1>4, SettledRests
<1>5. ASSUME NEW p \in Selections, Select(p)
      PROVE  Settled(s)'
  BY <1>1, <1>2, <1>5, RacedTurns, SettledRests DEF Select, ConversationInvariant
<1>6. CASE Read \/ Start
  BY <1>2, <1>3, <1>6, SettledRests DEF Read, Recovered, Start
<1>7. ASSUME NEW r \in Requests, Command(r)
      PROVE  Settled(s)'
  <2>1. UNCHANGED <<messages, builds>> /\ turn'[two].pc = "none"
    BY <1>1, <1>2, <1>7, RacedTurns DEF Command, ConversationInvariant
  <2>2. request'[one] = "done" /\ request'[two] \in {"unsent", "done"}
    BY <1>1, <1>2, <1>3, <1>7 DEF Command
  <2> QED BY <2>1, <2>2, SettledRests
<1>8. ASSUME NEW r \in Requests, Serve(r)
      PROVE  Settled(s)'
  <2>1. r # one /\ r # two
    BY <1>2, <1>8 DEF Serve, RecoverFirst, Open, OpenFails, Mark, MarkFails
  <2>2. request'[one] = request[one] /\ request'[two] = request[two] /\ builds' = builds
    BY <1>1, <1>3, <1>8, <2>1 DEF Serve, RecoverFirst, Open, OpenFails, Mark, MarkFails
  <2>3. turn'[two].pc = "none"
    BY <1>1, <1>2, <1>3, <1>8, <2>1 DEF Serve, RecoverFirst, Open, OpenFails, Mark, MarkFails
  <2>4. Asked(r) \in Messages /\ Asked(r).of # two
    BY <2>1 DEF Asked, Messages
  <2>5. messages' \in {messages, Append(messages, Asked(r)), Append(messages, Interrupted)}
    BY <1>8 DEF Serve, RecoverFirst, Recovered, Open, OpenFails, Mark, MarkFails
  <2> QED BY <1>2, <1>3, <2>2, <2>3, <2>4, <2>5, SettledRests
<1>9. ASSUME NEW r \in Requests, Think(r)
      PROVE  Settled(s)'
  <2> DEFINE m == [role |-> "assistant", of |-> r, kind |-> turn[r].reply]
  <2>1. r # two
    BY <1>2, <1>9 DEF Think, Look, Fail, Apply, Draft, Launch, Refuse, LaunchFails, Finish,
                      FinishFails, Release, Step
  <2>2. request' = request /\ turn'[two].pc = "none"
    BY <1>1, <1>2, <1>3, <1>9, <2>1
       DEF Think, Look, Fail, Apply, Draft, Launch, Refuse, LaunchFails, Finish, FinishFails,
           Release, Replies
  <2>3. m \in Messages /\ m.of # two
    BY <1>3, <2>1 DEF Messages, Turns
  <2>4. messages' \in {messages, Append(messages, m)}
    BY <1>9 DEF Think, Look, Fail, Apply, Draft, Launch, Refuse, LaunchFails, Finish, FinishFails,
                Release
  <2>5. \A b \in builds' \ builds : b.by = r
    <3>1. CASE Launch(r)
      BY <3>1 DEF Launch
    <3>2. CASE builds' = builds
      BY <3>2
    <3> QED BY <1>9, <3>1, <3>2 DEF Think, Look, Fail, Apply, Draft, Refuse, LaunchFails, Finish,
                                    FinishFails, Release
  <2> QED BY <1>2, <2>1, <2>2, <2>3, <2>4, <2>5, SettledRests
<1>10. CASE Crash
  BY <1>1, <1>2, <1>3, <1>10, SettledRests DEF Crash, NoTurn
<1> QED BY <1>4, <1>5, <1>6, <1>7, <1>8, <1>9, <1>10 DEF Next, vars, Age

\* However requests, recoveries, ageing turns and crashes interleave, every message that was let
\* in gets one answer or one error, no two turns are at work, and a send repeated only after its
\* request was answered starts nothing.
THEOREM MessagesAnsweredOnce == Spec => OneAnswerEach
<1>1. ConversationInvariant => OneAnswer
  BY DEF ConversationInvariant
<1>2. Init => DoneIsMarked
  BY ConversationsAssumption DEF Init, DoneIsMarked
<1>3. ConversationInvariant /\ DoneIsMarked /\ [Next]_vars => DoneIsMarked'
  BY MarksStay
<1>4. ConversationInvariant /\ DoneIsMarked /\ [Next]_vars
        => [\A s \in Sends : Settled(s) => Settled(s)']_vars
  BY SettledStays
<1> QED BY <1>1, <1>2, <1>3, <1>4, ConversationInvariantHolds, PTL DEF Spec, OneAnswerEach

\* No build was launched by a turn that reported an error, while an offer waited for the owner,
\* or from a draft the owner had left behind, unless under the very turn that drew it up.
THEOREM BuildsAreWhatWasMeant == Spec => []BuildsAreMeant
<1>1. ConversationInvariant => BuildsAreMeant
  BY DEF ConversationInvariant
<1> QED BY <1>1, ConversationInvariantHolds, PTL

-------------------------------------------------------------------------------
(* Routes: the inductive invariant *)

Fields == {"job", "phase", "account", "model", "effort", "state", "skipped"}

\* The attempts are a sequence of rows; catalogs and pins name efforts there are.
RoutingTypes ==
  /\ attempts \in Seq({attempts[i] : i \in DOMAIN attempts})
  /\ \A i \in DOMAIN attempts : DOMAIN attempts[i] = Fields /\ attempts[i].account \in DOMAIN Slots
  /\ DOMAIN catalog = DOMAIN Slots /\ \A a \in DOMAIN Slots : catalog[a] \in Catalogs[a]
  /\ DOMAIN pins = Providers /\ \A p \in Providers : pins[p] = Unpinned \/ pins[p].effort \in Efforts

\* An account serves one attempt at a time, so what is leased is the last attempt of its account.
LeasedIsLast ==
  \A k \in DOMAIN attempts : \A i \in 1 .. k - 1 :
    attempts[i].state = "leased" => attempts[i].account # attempts[k].account

RoutingInvariant == RoutingTypes /\ LeasedIsLast /\ RefusedOnce

-------------------------------------------------------------------------------
(* Routes: what a task asks for, and its options *)

EffortOf(w, a, m, pinned) ==
  IF Pin(a, pinned) # Unpinned THEN Pin(a, pinned).effort ELSE Effort(w, a, m)

LEMMA OptionHas ==
  ASSUME NEW w, NEW a, NEW m, NEW i, NEW pinned, NEW o, o = Option(w, a, m, i, pinned)
  PROVE  /\ o.account = a /\ o.model = m /\ o.index = i
         /\ o.effort = EffortOf(w, a, m, pinned)
         /\ o.skipped = (Pin(a, pinned) # pinned[Slots[a].provider])
<1> DEFINE skipped == Pin(a, pinned) # pinned[Slots[a].provider]
           effort == EffortOf(w, a, m, pinned)
<1>1. o = [account |-> a, model |-> m, index |-> i, effort |-> effort, skipped |-> skipped]
  BY DEF Option, EffortOf
<1> HIDE DEF skipped, effort
<1>2. o.account = a /\ o.model = m /\ o.index = i /\ o.effort = effort /\ o.skipped = skipped
  BY <1>1
<1> QED BY <1>2 DEF skipped, effort

LEMMA OptionsAre ==
  ASSUME NEW w, NEW pinned, NEW o
  PROVE  o \in Options(w, pinned) <=>
           \E a \in w.eligible : \E i \in DOMAIN Tried(w, a, pinned) :
             /\ ~Unavailable(a, Tried(w, a, pinned)[i])
             /\ o = Option(w, a, Tried(w, a, pinned)[i], i, pinned)
<1>1. o \in Options(w, pinned) <=> \E a \in w.eligible : o \in OptionsOn(w, a, pinned)
  BY DEF Options
<1> QED BY <1>1 DEF OptionsOn

LEMMA OptionsHave ==
  ASSUME NEW w, NEW pinned, NEW o \in Options(w, pinned)
  PROVE  /\ o.account \in w.eligible
         /\ ~Unavailable(o.account, o.model)
         /\ o.effort = EffortOf(w, o.account, o.model, pinned)
         /\ o.skipped = (Pin(o.account, pinned) # pinned[Slots[o.account].provider])
<1>1. PICK a \in w.eligible : \E i \in DOMAIN Tried(w, a, pinned) :
             /\ ~Unavailable(a, Tried(w, a, pinned)[i])
             /\ o = Option(w, a, Tried(w, a, pinned)[i], i, pinned)
  BY OptionsAre
<1>2. PICK i \in DOMAIN Tried(w, a, pinned) :
             /\ ~Unavailable(a, Tried(w, a, pinned)[i])
             /\ o = Option(w, a, Tried(w, a, pinned)[i], i, pinned)
  BY <1>1
<1>3. PICK m : m = Tried(w, a, pinned)[i]
  OBVIOUS
<1>4. /\ o.account = a /\ o.model = m /\ o.effort = EffortOf(w, a, m, pinned)
      /\ o.skipped = (Pin(a, pinned) # pinned[Slots[a].provider])
  BY <1>2, <1>3, OptionHas
<1>5. ~Unavailable(a, m)
  BY <1>2, <1>3
<1> QED BY <1>4, <1>5, Zenon

LEMMA WantsHave ==
  ASSUME NEW w \in Wants
  PROVE  /\ w.eligible \subseteq DOMAIN Slots
         /\ \A a \in w.eligible : \A i \in DOMAIN attempts :
              attempts[i].account = a => attempts[i].state # "leased"
         /\ w.repairs \in 0..2
         /\ w.phase \in {"plan", "direct", "build", "review"}
         /\ w.phase \in {"build", "review"} => ~w.director
         /\ DOMAIN w = {"job", "phase", "repairs", "director", "eligible", "author"}
<1>1. PICK job \in Jobs : w \in {Want(job, ask[1], ask[2]) : ask \in Asks(job)}
  BY DEF Wants
<1>2. PICK ask \in Asks(job) : w = Want(job, ask[1], ask[2])
  BY <1>1
<1>3. ask[1] \in {"plan", "direct", "build", "review"} /\ ask[2] \in 0..2
  BY <1>2 DEF Asks
<1>4. PICK phase, repairs : phase = ask[1] /\ repairs = ask[2]
  OBVIOUS
<1> DEFINE director == job.director /\ phase \notin {"build", "review"}
           eligible == Eligible(job, phase, director)
           author == IF phase = "review" THEN Slots[attempts[Most(Built(job))].account].provider
                     ELSE "none"
<1>5. w = [job |-> job, phase |-> phase, repairs |-> repairs, director |-> director,
           eligible |-> eligible, author |-> author]
  BY <1>2, <1>4 DEF Want
<1>6. phase \in {"build", "review"} => ~director
  OBVIOUS
<1>7. /\ eligible \subseteq DOMAIN Slots
      /\ \A a \in eligible : \A i \in DOMAIN attempts :
           attempts[i].account = a => attempts[i].state # "leased"
  <2> HIDE DEF director
  <2> QED BY DEF Eligible
<1> HIDE DEF director, eligible, author
<1>8. /\ w.job = job /\ w.phase = phase /\ w.repairs = repairs /\ w.director = director
      /\ w.eligible = eligible
      /\ DOMAIN w = {"job", "phase", "repairs", "director", "eligible", "author"}
  BY <1>5
<1> QED BY <1>3, <1>4, <1>6, <1>7, <1>8

-------------------------------------------------------------------------------
(* Routes: the steps *)

LEMMA AttemptsAreRows ==
  ASSUME RoutingTypes
  PROVE  Len(attempts) \in Nat /\ DOMAIN attempts = 1..Len(attempts)
BY DEF RoutingTypes

LEMMA RoutingStarts == ASSUME RoutingInit PROVE RoutingInvariant
<1>1. attempts = <<>> /\ DOMAIN attempts = {}
  BY DEF RoutingInit
<1>2. DOMAIN catalog = DOMAIN Slots /\ \A a \in DOMAIN Slots : catalog[a] \in Catalogs[a]
  BY DEF RoutingInit
<1>3. DOMAIN pins = Providers /\ \A p \in Providers : pins[p] = Unpinned
  BY DEF RoutingInit
<1>4. <<>> \in Seq({attempts[i] : i \in DOMAIN attempts})
  OBVIOUS
<1>5. RoutingTypes
  BY <1>1, <1>2, <1>3, <1>4 DEF RoutingTypes
<1> QED BY <1>1, <1>5 DEF RoutingInvariant, LeasedIsLast, RefusedOnce

LEMMA ClaimKeeps ==
  ASSUME RoutingAssumption, RoutingInvariant, NEW w \in Wants, Claim(w)
  PROVE  RoutingInvariant'
<1> DEFINE n == Len(attempts)
           X == {attempts[i] : i \in DOMAIN attempts}
<1>1. PICK o \in Options(w, pins) : attempts' = Append(attempts,
         [job |-> w.job, phase |-> w.phase, account |-> o.account, model |-> o.model,
          effort |-> o.effort, state |-> "leased", skipped |-> o.skipped])
  BY DEF Claim, SelectRoute
<1>2. PICK row : /\ attempts' = Append(attempts, row) /\ DOMAIN row = Fields
                 /\ row.account = o.account /\ row.model = o.model /\ row.state = "leased"
  <2>1. \A j, p, e, k : [job |-> j, phase |-> p, account |-> o.account, model |-> o.model,
                         effort |-> e, state |-> "leased", skipped |-> k].account = o.account
    OBVIOUS
  <2> DEFINE row == [job |-> w.job, phase |-> w.phase, account |-> o.account, model |-> o.model,
                     effort |-> o.effort, state |-> "leased", skipped |-> o.skipped]
  <2>2. DOMAIN row = Fields /\ row.account = o.account /\ row.model = o.model /\ row.state = "leased"
    BY DEF Fields
  <2> HIDE DEF row
  <2>3. attempts' = Append(attempts, row)
    BY <1>1 DEF row
  <2> QED BY <2>2, <2>3
<1>3. n \in Nat /\ DOMAIN attempts = 1..n /\ attempts \in Seq(X)
  BY AttemptsAreRows DEF RoutingInvariant, RoutingTypes
<1>4. /\ attempts' \in Seq(X \cup {row}) /\ Len(attempts') = n + 1 /\ DOMAIN attempts' = 1..(n + 1)
      /\ attempts'[n + 1] = row /\ \A i \in 1..n : attempts'[i] = attempts[i]
  <2> HIDE DEF X, n
  <2>1. attempts \in Seq(X \cup {row}) /\ row \in X \cup {row} /\ Len(attempts) = n
    BY <1>3 DEF n
  <2> QED BY <1>2, <1>3, <2>1
<1>5. /\ o.account \in DOMAIN Slots /\ ~Unavailable(o.account, o.model)
      /\ \A i \in DOMAIN attempts : attempts[i].account = o.account => attempts[i].state # "leased"
  BY OptionsHave, WantsHave
<1>6. UNCHANGED <<catalog, pins>>
  BY DEF Claim
<1>7. RoutingTypes'
  <2>1. attempts' \in Seq({attempts'[i] : i \in DOMAIN attempts'})
    <3>1. X \cup {row} \subseteq {attempts'[i] : i \in DOMAIN attempts'}
      BY <1>3, <1>4
    <3> HIDE DEF X, n
    <3>2. \A Y : X \cup {row} \subseteq Y => attempts' \in Seq(Y)
      BY <1>4
    <3> QED BY <3>1, <3>2
  <2>2. ASSUME NEW i \in DOMAIN attempts'
        PROVE  DOMAIN attempts'[i] = Fields /\ attempts'[i].account \in DOMAIN Slots
    <3>1. CASE i = n + 1
      BY <1>2, <1>4, <1>5, <3>1
    <3>2. CASE i # n + 1
      <4>1. i \in 1..n
        BY <1>3, <1>4, <3>2
      <4> QED BY <1>3, <1>4, <4>1 DEF RoutingInvariant, RoutingTypes
    <3> QED BY <3>1, <3>2
  <2> QED BY <1>6, <2>1, <2>2 DEF RoutingInvariant, RoutingTypes
<1>8. LeasedIsLast'
  <2> SUFFICES ASSUME NEW k \in DOMAIN attempts', NEW i \in 1 .. k - 1, attempts'[i].state = "leased"
               PROVE  attempts'[i].account # attempts'[k].account
    BY DEF LeasedIsLast
  <2>1. i \in 1..n /\ attempts'[i] = attempts[i]
    BY <1>3, <1>4
  <2>2. CASE k = n + 1
    BY <1>2, <1>3, <1>4, <1>5, <2>1, <2>2
  <2>3. CASE k # n + 1
    <3>1. k \in 1..n /\ attempts'[k] = attempts[k]
      BY <1>3, <1>4, <2>3
    <3> QED BY <1>3, <2>1, <3>1 DEF RoutingInvariant, LeasedIsLast
  <2> QED BY <2>2, <2>3
<1>9. RefusedOnce'
  <2> SUFFICES ASSUME NEW k \in DOMAIN attempts', NEW i \in 1 .. k - 1,
                      k - i <= Window, attempts'[i].account = attempts'[k].account,
                      attempts'[i].model = attempts'[k].model
               PROVE  attempts'[i].state # "model_unavailable"
    BY DEF RefusedOnce
  <2>1. i \in 1..n /\ attempts'[i] = attempts[i]
    BY <1>3, <1>4
  <2>2. CASE k = n + 1
    <3>1. i > n - Window
      BY <1>3, <2>1, <2>2 DEF RoutingAssumption
    <3>2. attempts[i].account = o.account /\ attempts[i].model = o.model
      BY <1>2, <1>4, <2>1, <2>2
    <3> QED BY <1>3, <1>5, <2>1, <3>1, <3>2 DEF Unavailable
  <2>3. CASE k # n + 1
    <3>1. k \in 1..n /\ attempts'[k] = attempts[k]
      BY <1>3, <1>4, <2>3
    <3> QED BY <1>3, <2>1, <3>1 DEF RoutingInvariant, RefusedOnce
  <2> QED BY <2>2, <2>3
<1> QED BY <1>7, <1>8, <1>9 DEF RoutingInvariant

LEMMA ConcludeKeeps ==
  ASSUME RoutingInvariant, NEW c \in DOMAIN attempts,
         NEW state \in {"passed", "failed", "model_unavailable"}, Conclude(c, state)
  PROVE  RoutingInvariant'
<1> DEFINE n == Len(attempts)
           row == [attempts[c] EXCEPT !.state = state]
<1>1. attempts[c].state = "leased" /\ attempts' = [attempts EXCEPT ![c].state = state]
      /\ UNCHANGED <<catalog, pins>>
  BY DEF Conclude
<1>2. n \in Nat /\ DOMAIN attempts = 1..n
  BY AttemptsAreRows DEF RoutingInvariant
<1>3. /\ DOMAIN attempts' = 1..n /\ attempts'[c] = row
      /\ \A i \in 1..n : i # c => attempts'[i] = attempts[i]
  BY <1>1, <1>2
<1>4. /\ row.account = attempts[c].account /\ row.model = attempts[c].model /\ row.state = state
      /\ DOMAIN row = Fields
  <2>1. DOMAIN attempts[c] = Fields
    BY DEF RoutingInvariant, RoutingTypes
  <2> QED BY <2>1 DEF Fields
<1>5. \A i \in 1..n : /\ attempts'[i].account = attempts[i].account
                      /\ attempts'[i].model = attempts[i].model
                      /\ attempts'[i].state = (IF i = c THEN state ELSE attempts[i].state)
  <2> HIDE DEF row
  <2> QED BY <1>2, <1>3, <1>4
<1>6. RoutingTypes'
  <2>1. attempts' \in Seq({attempts'[i] : i \in DOMAIN attempts'})
    <3>1. attempts' = [i \in 1..n |-> attempts'[i]]
      BY <1>1, <1>2
    <3> DEFINE Y == {attempts'[i] : i \in DOMAIN attempts'}
    <3>2. \A i \in 1..n : attempts'[i] \in Y
      BY <1>3
    <3> HIDE DEF Y, n
    <3>3. attempts' \in [1..n -> Y]
      BY <3>1, <3>2
    <3>4. attempts' \in Seq(Y)
      BY <1>2, <3>3
    <3> QED BY <3>4 DEF Y
  <2>2. \A i \in DOMAIN attempts' : DOMAIN attempts'[i] = Fields /\ attempts'[i].account \in DOMAIN Slots
    <3> HIDE DEF row, n
    <3> QED BY <1>2, <1>3, <1>4, <1>5 DEF RoutingInvariant, RoutingTypes
  <2> QED BY <1>1, <2>1, <2>2 DEF RoutingInvariant, RoutingTypes
<1> HIDE DEF row, n
<1>7. LeasedIsLast'
  <2> SUFFICES ASSUME NEW k \in 1..n, NEW i \in 1 .. k - 1, attempts'[i].state = "leased"
               PROVE  attempts'[i].account # attempts'[k].account
    BY <1>3 DEF LeasedIsLast
  <2>1. i \in 1..n /\ attempts[i].state = "leased"
    BY <1>2, <1>5
  <2> QED BY <1>2, <1>5, <2>1 DEF RoutingInvariant, LeasedIsLast
<1>8. RefusedOnce'
  <2> SUFFICES ASSUME NEW k \in 1..n, NEW i \in 1 .. k - 1,
                      k - i <= Window, attempts'[i].account = attempts'[k].account,
                      attempts'[i].model = attempts'[k].model
               PROVE  attempts'[i].state # "model_unavailable"
    BY <1>3 DEF RefusedOnce
  <2>1. i \in 1..n /\ attempts[i].account = attempts[k].account /\ attempts[i].model = attempts[k].model
    BY <1>2, <1>5
  <2>2. i # c
    BY <1>1, <1>2, <2>1 DEF RoutingInvariant, LeasedIsLast
  <2> QED BY <1>2, <1>5, <2>1, <2>2 DEF RoutingInvariant, RefusedOnce
<1> QED BY <1>6, <1>7, <1>8 DEF RoutingInvariant

LEMMA ChoicesHaveEfforts ==
  ASSUME RoutingAssumption, RoutingInvariant, NEW provider \in Providers, NEW pin \in Pinnable(provider)
  PROVE  pin.effort \in Efforts
<1>1. CASE provider = "claude"
  BY <1>1 DEF Pinnable
<1>2. CASE provider # "claude"
  <2>1. PICK a \in DOMAIN Slots : \E m \in DOMAIN catalog[a] : \E e \in catalog[a][m] :
                                    pin = [model |-> m, effort |-> e]
    BY <1>2 DEF Pinnable
  <2>2. PICK m \in DOMAIN catalog[a] : \E e \in catalog[a][m] : pin = [model |-> m, effort |-> e]
    BY <2>1
  <2>3. PICK e \in catalog[a][m] : pin = [model |-> m, effort |-> e]
    BY <2>2
  <2>4. e \in Efforts
    BY DEF RoutingAssumption, RoutingInvariant, RoutingTypes
  <2> QED BY <2>3, <2>4
<1> QED BY <1>1, <1>2

LEMMA OwnersStepsKeep ==
  ASSUME RoutingAssumption, RoutingInvariant,
         \/ \E p \in Providers : Repin(p)
         \/ \E a \in DOMAIN Slots : Readvertise(a)
         \/ UNCHANGED rvars
  PROVE  RoutingInvariant'
<1>1. UNCHANGED attempts
  BY DEF Repin, Readvertise, rvars
<1>2. LeasedIsLast' /\ RefusedOnce'
  BY <1>1 DEF RoutingInvariant, LeasedIsLast, RefusedOnce
<1>3. ASSUME NEW p \in Providers, Repin(p) PROVE RoutingTypes'
  <2>1. PICK pin \in (Pinnable(p) \cap Choosable) \cup {Unpinned} : pins' = [pins EXCEPT ![p] = pin]
    BY <1>3 DEF Repin
  <2>2. pin = Unpinned \/ pin.effort \in Efforts
    BY <2>1, ChoicesHaveEfforts
  <2>3. UNCHANGED catalog
    BY <1>3 DEF Repin
  <2>4. DOMAIN pins' = Providers /\ \A q \in Providers : pins'[q] = Unpinned \/ pins'[q].effort \in Efforts
    BY <2>1, <2>2 DEF RoutingInvariant, RoutingTypes
  <2> QED BY <1>1, <2>3, <2>4 DEF RoutingInvariant, RoutingTypes
<1>4. ASSUME NEW a \in DOMAIN Slots, Readvertise(a) PROVE RoutingTypes'
  <2>1. PICK c \in Catalogs[a] : catalog' = [catalog EXCEPT ![a] = c]
    BY <1>4 DEF Readvertise
  <2>2. UNCHANGED pins
    BY <1>4 DEF Readvertise
  <2>3. DOMAIN catalog' = DOMAIN Slots /\ \A b \in DOMAIN Slots : catalog'[b] \in Catalogs[b]
    BY <2>1 DEF RoutingInvariant, RoutingTypes
  <2> QED BY <1>1, <2>2, <2>3 DEF RoutingInvariant, RoutingTypes
<1>5. ASSUME UNCHANGED rvars PROVE RoutingTypes'
  BY <1>5 DEF rvars, RoutingInvariant, RoutingTypes
<1> QED BY <1>2, <1>3, <1>4, <1>5 DEF RoutingInvariant

-------------------------------------------------------------------------------
(* Routes: what the options promise *)

\* Whatever is tried without pins can be tried with them: a pin in force is not refused.
LEMMA PinsHoldNothingUp == ASSUME RoutingAssumption PROVE PinsNeverBlock
<1> DEFINE none == [p \in Providers |-> Unpinned]
<1> SUFFICES ASSUME NEW w \in Wants, NEW o, o \in Options(w, none) PROVE Options(w, pins) # {}
  BY DEF PinsNeverBlock
<1>1. PICK a \in w.eligible : \E i \in DOMAIN Tried(w, a, none) : ~Unavailable(a, Tried(w, a, none)[i])
  <2> HIDE DEF none
  <2> QED BY OptionsAre
<1>2. PICK i \in DOMAIN Tried(w, a, none) : ~Unavailable(a, Tried(w, a, none)[i])
  BY <1>1
<1>3. a \in DOMAIN Slots /\ Slots[a].provider \in Providers
  BY WantsHave DEF RoutingAssumption
<1>4. Pin(a, none) = Unpinned
  BY <1>3 DEF Pin
<1>5. Tried(w, a, none) = Models(w, a)
  BY <1>4 DEF Tried
<1> HIDE DEF none
<1>6. PICK j \in DOMAIN Tried(w, a, pins) : ~Unavailable(a, Tried(w, a, pins)[j])
  <2>1. CASE Pin(a, pins) = Unpinned
    <3>1. Tried(w, a, pins) = Tried(w, a, none)
      BY <1>5, <2>1 DEF Tried
    <3> QED BY <1>2, <3>1
  <2>2. CASE Pin(a, pins) # Unpinned
    <3>1. Models(w, a) # <<>>
      BY <1>2, <1>5
    <3>2. Tried(w, a, pins) = <<Pin(a, pins).model>>
      BY <2>2, <3>1 DEF Tried
    <3>3. ~Unavailable(a, Pin(a, pins).model)
      BY <2>2 DEF Pin
    <3>4. 1 \in DOMAIN Tried(w, a, pins) /\ Tried(w, a, pins)[1] = Pin(a, pins).model
      BY <3>2
    <3> QED BY <3>3, <3>4
  <2> QED BY <2>1, <2>2
<1> QED BY <1>6, OptionsAre

LEMMA LeastIs ==
  ASSUME NEW S \in SUBSET Int, NEW n \in S, \A k \in S : n <= k
  PROVE  Least(S) = n
<1>1. \E m : m \in S /\ \A k \in S : m <= k
  OBVIOUS
<1>2. Least(S) \in S /\ \A k \in S : Least(S) <= k
  BY <1>1, Zenon DEF Least
<1>3. PICK m \in Int : m = Least(S)
  BY <1>2
<1>4. n \in Int /\ m <= n /\ n <= m
  BY <1>2, <1>3
<1>5. m = n
  BY <1>3, <1>4
<1> QED BY <1>3, <1>5

LEMMA EffortsHaveEnds ==
  ASSUME NEW S \in SUBSET Efforts, S # {}
  PROVE  /\ Least(S) \in S /\ \A k \in S : Least(S) <= k
         /\ Most(S) \in S /\ \A k \in S : k <= Most(S)
<1>1. S \subseteq {1, 2, 3, 4, 5}
  BY DEF Efforts
<1>2. PICK n : n \in S /\ \A k \in S : n <= k
  <2>1. CASE 1 \in S
    BY <1>1, <2>1
  <2>2. CASE 1 \notin S /\ 2 \in S
    BY <1>1, <2>2
  <2>3. CASE 1 \notin S /\ 2 \notin S /\ 3 \in S
    BY <1>1, <2>3
  <2>4. CASE 1 \notin S /\ 2 \notin S /\ 3 \notin S /\ 4 \in S
    BY <1>1, <2>4
  <2>5. CASE 1 \notin S /\ 2 \notin S /\ 3 \notin S /\ 4 \notin S
    BY <1>1, <2>5
  <2> QED BY <2>1, <2>2, <2>3, <2>4, <2>5
<1>3. PICK m : m \in S /\ \A k \in S : k <= m
  <2>1. CASE 5 \in S
    BY <1>1, <2>1
  <2>2. CASE 5 \notin S /\ 4 \in S
    BY <1>1, <2>2
  <2>3. CASE 5 \notin S /\ 4 \notin S /\ 3 \in S
    BY <1>1, <2>3
  <2>4. CASE 5 \notin S /\ 4 \notin S /\ 3 \notin S /\ 2 \in S
    BY <1>1, <2>4
  <2>5. CASE 5 \notin S /\ 4 \notin S /\ 3 \notin S /\ 2 \notin S
    BY <1>1, <2>5
  <2> QED BY <2>1, <2>2, <2>3, <2>4, <2>5
<1>4. Least(S) \in S /\ \A k \in S : Least(S) <= k
  BY <1>2, Zenon DEF Least
<1>5. Most(S) \in S /\ \A k \in S : k <= Most(S)
  BY <1>3, Zenon DEF Most
<1> QED BY <1>4, <1>5

LEMMA LevelsAreEfforts ==
  ASSUME RoutingAssumption, RoutingInvariant, NEW a \in DOMAIN Slots, NEW m
  PROVE  Levels(a, m) \subseteq Efforts
BY DEF Levels, RoutingAssumption, RoutingInvariant, RoutingTypes

\* The first places of a score: who wrote the work, whether Codex directs, who failed it last.
LEMMA ScoreHas ==
  ASSUME NEW w, NEW o
  PROVE  /\ DOMAIN Score(w, o) = 1..6
         /\ Score(w, o)[1] = (w.phase = "review" /\ Slots[o.account].provider = w.author)
         /\ Score(w, o)[2] = (w.director /\ Slots[o.account].provider # "codex")
         /\ Score(w, o)[3] = (w.repairs >= 2 /\ Slots[o.account].provider = FailedProvider(w))
<1> DEFINE past == Comparable(w, o)
           b1 == w.phase = "review" /\ Slots[o.account].provider = w.author
           b2 == w.director /\ Slots[o.account].provider # "codex"
           b3 == w.repairs >= 2 /\ Slots[o.account].provider = FailedProvider(w)
           passed == {i \in past : attempts[i].state = "passed"}
           b4 == Cardinality(past) >= 2 /\ 2 * Cardinality(passed) <= Cardinality(past)
           b5 == w.job.risk = "high" /\ catalog[o.account] = <<>>
           b6 == Cardinality(passed) < Samples
<1>1. Score(w, o) = <<b1, b2, b3, b4, b5, b6>>
  BY DEF Score, ScoreAfter
<1> HIDE DEF b1, b2, b3, b4, b5, b6
<1>2. /\ DOMAIN <<b1, b2, b3, b4, b5, b6>> = 1..6 /\ <<b1, b2, b3, b4, b5, b6>>[1] = b1
      /\ <<b1, b2, b3, b4, b5, b6>>[2] = b2 /\ <<b1, b2, b3, b4, b5, b6>>[3] = b3
  OBVIOUS
<1> QED BY <1>1, <1>2 DEF b1, b2, b3

\* The first place in which scores differ decides.
LEMMA FirstDifferenceDecides ==
  ASSUME NEW w, NEW o, NEW p, NEW n \in 1..6,
         Score(w, o)[n] = TRUE, Score(w, p)[n] = FALSE,
         \A i \in 1 .. n - 1 : Score(w, o)[i] = Score(w, p)[i]
  PROVE  Better(w, p, o)
<1> DEFINE so == Score(w, o)
           sp == Score(w, p)
           differ == {i \in DOMAIN sp : sp[i] # so[i]}
<1>1. n \in differ
  BY ScoreHas
<1>2. \A k \in differ : k \in 1..6 /\ n <= k
  BY ScoreHas
<1>3. Least(differ) = n
  <2>1. differ \in SUBSET Int
    BY <1>2
  <2> HIDE DEF differ
  <2> QED BY <1>1, <1>2, <2>1, LeastIs
<1>4. differ # {}
  BY <1>1
<1>5. Better(w, p, o) <=> IF differ # {} THEN so[Least(differ)] ELSE sp[Len(sp)] /\ p.index < o.index
  BY Zenon DEF Better
<1> HIDE DEF differ
<1> QED BY <1>3, <1>4, <1>5

LEMMA OthersAreTried == ASSUME RoutingAssumption PROVE OthersGetTheirTurn
<1> DEFINE Avoided(w) == IF w.phase = "review" THEN w.author
                         ELSE IF w.phase = "build" /\ w.repairs = 2 THEN FailedProvider(w) ELSE "none"
<1> SUFFICES ASSUME NEW w \in Wants, NEW o \in SelectRoute(w, pins), Slots[o.account].provider = Avoided(w),
                    NEW p \in Options(w, pins), Slots[p.account].provider # Avoided(w)
             PROVE  FALSE
  BY DEF OthersGetTheirTurn
<1>1. o \in Options(w, pins) /\ ~Better(w, p, o)
  BY DEF SelectRoute
<1>2. Slots[o.account].provider \in Providers
  BY <1>1, OptionsHave, WantsHave DEF RoutingAssumption
<1>3. Avoided(w) # "none"
  BY <1>2 DEF Providers
<1>4. ASSUME NEW x \in {o, p}
      PROVE  /\ Score(w, x)[1] = (w.phase = "review" /\ Slots[x.account].provider = w.author)
             /\ Score(w, x)[2] = (w.director /\ Slots[x.account].provider # "codex")
             /\ Score(w, x)[3] = (w.repairs >= 2 /\ Slots[x.account].provider = FailedProvider(w))
  BY ScoreHas, Zenon
<1>5. CASE w.phase = "review"
  <2>1. Slots[o.account].provider = w.author /\ Slots[p.account].provider # w.author
    BY <1>5
  <2>2. Score(w, o)[1] = TRUE /\ Score(w, p)[1] = FALSE
    BY <1>4, <1>5, <2>1, Zenon
  <2>3. 1 \in 1..6 /\ \A i \in 1 .. 1 - 1 : Score(w, o)[i] = Score(w, p)[i]
    OBVIOUS
  <2>4. Better(w, p, o)
    BY <2>2, <2>3, FirstDifferenceDecides, Zenon
  <2> QED BY <1>1, <2>4
<1>6. CASE w.phase # "review"
  <2>1. w.phase = "build" /\ w.repairs = 2 /\ Avoided(w) = FailedProvider(w)
    BY <1>3, <1>6
  <2>2. ~w.director /\ w.repairs >= 2
    BY <2>1, WantsHave
  <2>3. Slots[o.account].provider = FailedProvider(w) /\ Slots[p.account].provider # FailedProvider(w)
    BY <2>1
  <2>4. /\ Score(w, o)[1] = FALSE /\ Score(w, p)[1] = FALSE
        /\ Score(w, o)[2] = FALSE /\ Score(w, p)[2] = FALSE
    BY <1>4, <1>6, <2>2, Zenon
  <2>5. Score(w, o)[3] = TRUE /\ Score(w, p)[3] = FALSE
    BY <1>4, <2>2, <2>3, Zenon
  <2>6. 3 \in 1..6 /\ \A i \in 1 .. 3 - 1 : Score(w, o)[i] = Score(w, p)[i]
    <3>1. 1 .. 3 - 1 = {1, 2} /\ 3 \in 1..6
      OBVIOUS
    <3> QED BY <2>4, <3>1
  <2>7. Better(w, p, o)
    BY <2>5, <2>6, FirstDifferenceDecides, Zenon
  <2> QED BY <1>1, <2>7
<1> QED BY <1>5, <1>6

LEMMA RepairsWantMore ==
  ASSUME NEW w \in Wants, w.repairs < 2, NEW v, v = [w EXCEPT !.repairs = @ + 1]
  PROVE  Desired(w) \in Nat /\ Desired(v) \in Nat /\ Desired(w) <= Desired(v)
<1>1. /\ v.repairs = w.repairs + 1 /\ v.job = w.job /\ v.phase = w.phase /\ v.director = w.director
      /\ w.repairs \in {0, 1}
  BY WantsHave
<1>2. CASE w.director
  <2>1. Desired(w) = Tier(w).effort /\ Desired(v) = Tier(v).effort
    BY <1>1, <1>2 DEF Desired
  <2>2. CASE w.phase = "direct"
    BY <1>1, <2>1, <2>2 DEF Tier
  <2>3. CASE w.phase # "direct"
    BY <1>1, <2>1, <2>3 DEF Tier
  <2> QED BY <2>2, <2>3
<1>3. CASE ~w.director
  <2>1. w.repairs = 0 => Desired(w) \in {1, 2, 3}
    BY <1>1, <1>3 DEF Desired
  <2>2. w.repairs = 1 => Desired(w) = 3
    BY <1>1, <1>3 DEF Desired
  <2>3. v.repairs = 1 => Desired(v) = 3
    BY <1>1, <1>3 DEF Desired
  <2>4. v.repairs = 2 => Desired(v) = 4
    BY <1>1, <1>3 DEF Desired
  <2> QED BY <1>1, <2>1, <2>2, <2>3, <2>4
<1> QED BY <1>2, <1>3

LEMMA EffortsAreHad == ASSUME RoutingAssumption, RoutingInvariant PROVE EffortsFit
<1>1. ASSUME NEW w \in Wants, NEW o \in Options(w, pins),
             pins[Slots[o.account].provider] = Unpinned \/ o.skipped
      PROVE  IF Levels(o.account, o.model) = {} THEN o.effort = 0
             ELSE o.effort \in Levels(o.account, o.model)
  <2> DEFINE a == o.account
             L == Levels(a, o.model)
             above == {e \in L : e >= Desired(w)}
  <2>1. a \in DOMAIN Slots /\ o.effort = EffortOf(w, a, o.model, pins)
    BY OptionsHave, WantsHave
  <2>2. o.skipped = (Pin(a, pins) # pins[Slots[a].provider])
    BY OptionsHave
  <2>3. Pin(a, pins) = Unpinned
    BY <1>1, <2>2 DEF Pin
  <2>4. o.effort = IF L = {} THEN 0 ELSE IF above # {} THEN Least(above) ELSE Most(L)
    BY <2>1, <2>3 DEF EffortOf, Effort
  <2>5. L \in SUBSET Efforts /\ above \in SUBSET Efforts /\ above \subseteq L
    BY <2>1, LevelsAreEfforts
  <2> HIDE DEF L, above
  <2>6. L # {} => o.effort \in L
    BY <2>4, <2>5, EffortsHaveEnds
  <2> QED BY <2>4, <2>6 DEF L
<1>2. ASSUME NEW w \in Wants, NEW o \in Options(w, pins), w.repairs < 2,
             NEW v, v = [w EXCEPT !.repairs = @ + 1], NEW p \in Options(v, pins),
             p.account = o.account, p.model = o.model
      PROVE  p.effort >= o.effort
  <2> DEFINE a == o.account
             L == Levels(a, o.model)
             above == {e \in L : e >= Desired(w)}
             higher == {e \in L : e >= Desired(v)}
  <2>1. /\ a \in DOMAIN Slots
        /\ o.effort = EffortOf(w, a, o.model, pins) /\ p.effort = EffortOf(v, a, o.model, pins)
    BY <1>2, OptionsHave, WantsHave
  <2>2. CASE Pin(a, pins) # Unpinned
    <3>1. o.effort = Pin(a, pins).effort /\ p.effort = Pin(a, pins).effort
      BY <2>1, <2>2 DEF EffortOf
    <3>2. Pin(a, pins) = pins[Slots[a].provider] /\ Slots[a].provider \in Providers
      BY <2>1, <2>2 DEF Pin, RoutingAssumption
    <3>3. Pin(a, pins).effort \in Efforts
      BY <2>2, <3>2 DEF RoutingInvariant, RoutingTypes
    <3>4. PICK e \in Int : e = Pin(a, pins).effort
      BY <3>3 DEF Efforts
    <3> QED BY <3>1, <3>4
  <2>3. CASE Pin(a, pins) = Unpinned
    <3>1. /\ o.effort = IF L = {} THEN 0 ELSE IF above # {} THEN Least(above) ELSE Most(L)
          /\ p.effort = IF L = {} THEN 0 ELSE IF higher # {} THEN Least(higher) ELSE Most(L)
      BY <2>1, <2>3 DEF EffortOf, Effort
    <3>2. /\ L \in SUBSET Efforts /\ above \in SUBSET Efforts /\ higher \in SUBSET Efforts
          /\ above \subseteq L
      BY <2>1, LevelsAreEfforts
    <3>3. higher \subseteq above
      <4>1. Desired(w) \in Nat /\ Desired(v) \in Nat /\ Desired(w) <= Desired(v)
        BY <1>2, RepairsWantMore
      <4> QED BY <3>2, <4>1 DEF Efforts
    <3> HIDE DEF L, above, higher
    <3>4. CASE L = {}
      BY <3>1, <3>4
    <3>5. CASE L # {} /\ higher # {}
      <4>1. Least(higher) \in above /\ \A k \in above : Least(above) <= k
        BY <3>2, <3>3, <3>5, EffortsHaveEnds
      <4>2. o.effort = Least(above) /\ p.effort = Least(higher) /\ Least(above) \in Efforts
        BY <3>1, <3>2, <3>3, <3>5, EffortsHaveEnds
      <4> QED BY <3>2, <4>1, <4>2 DEF Efforts
    <3>6. CASE L # {} /\ higher = {}
      <4>1. Most(L) \in L /\ \A k \in L : k <= Most(L)
        BY <3>2, <3>6, EffortsHaveEnds
      <4>2. o.effort \in L /\ p.effort = Most(L)
        BY <3>1, <3>2, <3>6, EffortsHaveEnds
      <4> QED BY <3>2, <4>1, <4>2 DEF Efforts
    <3> QED BY <3>4, <3>5, <3>6
  <2> QED BY <2>2, <2>3
<1> QED BY <1>1, <1>2 DEF EffortsFit

-------------------------------------------------------------------------------
(* Routes: the theorems *)

\* The invariant holds for every task, account, catalog and number of attempts.
THEOREM RoutingInvariantHolds == ASSUME RoutingAssumption PROVE RoutingSpec => []RoutingInvariant
<1>1. RoutingInvariant /\ [RoutingNext]_rvars => RoutingInvariant'
  BY ClaimKeeps, ConcludeKeeps, OwnersStepsKeep DEF RoutingNext
<1>2. RoutingInit => RoutingInvariant
  BY RoutingStarts
<1> QED BY <1>1, <1>2, PTL DEF RoutingSpec

\* A model the CLI refused on an account is not asked of it again, pins never hold work up, the
\* provider that failed or wrote the work gives way to another, and efforts are ones the models
\* have (control/routing.py, select_route()).
THEOREM RoutesStaySound == ASSUME RoutingAssumption PROVE RoutingSpec => []RoutesAreSound
<1>1. RoutingInvariant => RoutesAreSound
  BY PinsHoldNothingUp, OthersAreTried, EffortsAreHad DEF RoutingInvariant, RoutesAreSound
<1> QED BY <1>1, RoutingInvariantHolds, PTL

-------------------------------------------------------------------------------
(* Campaigns: the inductive invariant *)

AcquisitionTypes ==
  /\ DOMAIN campaigns = Keys
  /\ \A k \in Keys : /\ DOMAIN campaigns[k] = {"status", "budget", "method", "plan", "approved"}
                     /\ campaigns[k].approved \in BOOLEAN
  /\ \A o \in DOMAIN operations : DOMAIN operations[o] = {"status", "attempts"}
  /\ \A o \in DOMAIN receipts : /\ DOMAIN receipts[o] = {"contact", "cost", "due", "observed"}
                                /\ receipts[o].observed \in BOOLEAN
  /\ executor \in [Executors -> [key : Keys \cup {"none"}, index : Nat,
                                 failure : Failures \cup {"none"},
                                 step : {"idle", "attempt", "complete", "finish"}]]

PlanOf(k) == ToSet(campaigns[k].plan)

\* Approval reserves each contact of the plan and opens an operation for it, and only approval does.
ApprovalsReserve ==
  /\ \A k \in Keys : campaigns[k].approved =>
       \A r \in PlanOf(k) : <<r.contact, k>> \in contacts /\ <<k, r.id>> \in DOMAIN operations
  /\ \A k \in Keys : campaigns[k].status \in {"COMPLETED", "SETTLED"} => campaigns[k].approved
  /\ \A o \in DOMAIN operations : o[1] \in Keys /\ campaigns[o[1]].approved

\* What was delivered is an operation on a record of its campaign's plan; no other is completed.
ReceiptsAreOfPlans ==
  /\ \A o \in DOMAIN receipts :
       /\ o \in DOMAIN operations
       /\ \E r \in PlanOf(o[1]) : o = <<o[1], r.id>> /\ receipts[o].contact = r.contact
  /\ \A o \in DOMAIN operations : operations[o].status = "completed" => o \in DOMAIN receipts

\* A process in execute() works through the plan of an approved campaign.
AtWorkOnPlans(e) ==
  executor[e].step # "idle" =>
    /\ executor[e].key \in Keys /\ campaigns[executor[e].key].approved
    /\ executor[e].step \in {"attempt", "complete"} =>
         executor[e].index \in DOMAIN campaigns[executor[e].key].plan
    /\ executor[e].step = "complete" => Operation(e) \in DOMAIN receipts

ContactsAreUnique ==
  \A o, p \in DOMAIN receipts : receipts[o].contact = receipts[p].contact => o = p

AcquisitionInvariant ==
  /\ AcquisitionTypes /\ ApprovalsReserve /\ ReceiptsAreOfPlans
  /\ \A e \in Executors : AtWorkOnPlans(e)
  /\ ContactsAreUnique /\ AttemptsAreCounted /\ FinishedIsDelivered

-------------------------------------------------------------------------------
(* Campaigns: the invariant under a step *)

LEMMA AcquisitionStarts == AcquisitionInit => AcquisitionInvariant
<1> SUFFICES ASSUME AcquisitionInit PROVE AcquisitionInvariant
  OBVIOUS
<1>1. /\ DOMAIN campaigns = Keys /\ DOMAIN operations = {} /\ DOMAIN receipts = {}
      /\ \A k \in Keys : campaigns[k] = NoCampaign
      /\ executor = [e \in Executors |-> Idle]
  BY DEF AcquisitionInit
<1>2. /\ DOMAIN NoCampaign = {"status", "budget", "method", "plan", "approved"}
      /\ NoCampaign.approved = FALSE /\ NoCampaign.status = "none"
  BY DEF NoCampaign
<1>3. AcquisitionTypes
  <2>1. Idle \in [key : Keys \cup {"none"}, index : Nat, failure : Failures \cup {"none"},
                  step : {"idle", "attempt", "complete", "finish"}]
    BY DEF Idle
  <2> QED BY <1>1, <1>2, <2>1 DEF AcquisitionTypes
<1>4. ApprovalsReserve /\ FinishedIsDelivered
  BY <1>1, <1>2 DEF ApprovalsReserve, FinishedIsDelivered
<1>5. ReceiptsAreOfPlans /\ ContactsAreUnique /\ AttemptsAreCounted
  BY <1>1 DEF ReceiptsAreOfPlans, ContactsAreUnique, AttemptsAreCounted
<1>6. \A e \in Executors : AtWorkOnPlans(e)
  BY <1>1 DEF AtWorkOnPlans, Idle
<1> QED BY <1>3, <1>4, <1>5, <1>6 DEF AcquisitionInvariant

\* Plans of campaigns that were approved stay, and so does the approval.
PlansStand ==
  \A k \in Keys : campaigns[k].approved =>
    campaigns'[k].approved /\ campaigns'[k].plan = campaigns[k].plan

\* Executors that do not move go on working through their plans.
LEMMA OthersWorkOn ==
  ASSUME AcquisitionInvariant, PlansStand, DOMAIN receipts \subseteq DOMAIN receipts',
         NEW e \in Executors, executor'[e] = executor[e]
  PROVE  AtWorkOnPlans(e)'
<1>1. AtWorkOnPlans(e)
  BY DEF AcquisitionInvariant
<1>2. executor[e].step # "idle" => Operation(e)' = Operation(e)
  BY <1>1 DEF AtWorkOnPlans, PlansStand, Operation, Record, Plan
<1> QED BY <1>1, <1>2 DEF AtWorkOnPlans, PlansStand

\* Nor does an executor that goes on to the next record, or gives up, leave its plan.
LEMMA MoversWorkOn ==
  ASSUME AcquisitionInvariant, PlansStand, DOMAIN receipts \subseteq DOMAIN receipts',
         NEW e \in Executors, \/ GoOn(e) /\ UNCHANGED campaigns /\ executor[e].step # "idle"
                              \/ Raises(e)
  PROVE  /\ \A x \in Executors : AtWorkOnPlans(x)'
         /\ executor' \in [Executors -> [key : Keys \cup {"none"}, index : Nat,
                                 failure : Failures \cup {"none"},
                                 step : {"idle", "attempt", "complete", "finish"}]]
<1> DEFINE Row == [key : Keys \cup {"none"}, index : Nat, failure : Failures \cup {"none"},
                   step : {"idle", "attempt", "complete", "finish"}]
<1>1. executor \in [Executors -> Row] /\ AtWorkOnPlans(e)
  BY DEF AcquisitionInvariant, AcquisitionTypes
<1>2. /\ executor' = [executor EXCEPT ![e] = executor'[e]]
      /\ executor'[e] \in Row
      /\ AtWorkOnPlans(e)'
  <2>1. CASE Raises(e)
    <3>1. executor' = [executor EXCEPT ![e] = Idle] /\ executor'[e] = Idle
      BY <1>1, <2>1 DEF Raises
    <3>2. Idle \in Row /\ Idle.step = "idle"
      BY DEF Idle
    <3> QED BY <3>1, <3>2 DEF AtWorkOnPlans
  <2>2. CASE GoOn(e) /\ UNCHANGED campaigns /\ executor[e].step # "idle"
    <3> DEFINE k == executor[e].key  i == executor[e].index + 1
    <3>1. executor[e] \in Row /\ i \in Nat
      BY <1>1
    <3>2. /\ executor'[e] = [executor[e] EXCEPT !.index = i, !.step = Turn(k, i)]
          /\ executor' = [executor EXCEPT ![e] = executor'[e]]
      BY <1>1, <2>2 DEF GoOn
    <3>3. Turn(k, i) \in {"attempt", "finish"}
          /\ (Turn(k, i) = "attempt" => i \in DOMAIN campaigns[k].plan)
      BY DEF Turn
    <3>4. /\ executor'[e] \in Row /\ executor'[e].key = k /\ executor'[e].index = i
          /\ executor'[e].step = Turn(k, i)
      BY <3>1, <3>2, <3>3
    <3> HIDE DEF i
    <3>5. k \in Keys /\ campaigns[k].approved /\ UNCHANGED campaigns
      BY <1>1, <2>2 DEF AtWorkOnPlans
    <3> QED BY <3>2, <3>3, <3>4, <3>5 DEF AtWorkOnPlans
  <2> QED BY <2>1, <2>2
<1> HIDE DEF Row
<1>3. executor' \in [Executors -> Row] /\ \A x \in Executors \ {e} : executor'[x] = executor[x]
  BY <1>1, <1>2
<1>4. \A x \in Executors : AtWorkOnPlans(x)'
  BY <1>2, <1>3, OthersWorkOn
<1> QED BY <1>3, <1>4 DEF Row

ExecutorsFit ==
  /\ \A e \in Executors : AtWorkOnPlans(e)
  /\ executor \in [Executors -> [key : Keys \cup {"none"}, index : Nat,
                                 failure : Failures \cup {"none"},
                                 step : {"idle", "attempt", "complete", "finish"}]]

RowOf(row) ==
  /\ DOMAIN row = {"status", "budget", "method", "plan", "approved"}
  /\ row.approved \in BOOLEAN
Finished(k) == campaigns[k].status \in {"COMPLETED", "SETTLED"}

\* Steps that change campaigns and executors only.
LEMMA LedgerRests ==
  ASSUME AcquisitionInvariant, UNCHANGED <<contacts, operations, receipts>>, ExecutorsFit',
         DOMAIN campaigns' = Keys, PlansStand,
         \A k \in Keys : /\ RowOf(campaigns'[k])
                         /\ campaigns'[k].approved => campaigns[k].approved
                         /\ Finished(k)' => campaigns[k].approved,
         FinishedIsDelivered'
  PROVE  AcquisitionInvariant'
<1>1. AcquisitionTypes'
  BY DEF AcquisitionInvariant, AcquisitionTypes, RowOf, ExecutorsFit
<1>2. \A k \in Keys : campaigns[k].approved => PlanOf(k)' = PlanOf(k)
  BY DEF PlansStand, PlanOf
<1>3. ApprovalsReserve'
  <2>1. /\ \A k \in Keys : campaigns'[k].approved => campaigns[k].approved
        /\ \A k \in Keys : Finished(k)' => campaigns[k].approved
        /\ \A k \in Keys : campaigns[k].approved => campaigns'[k].approved
    BY DEF PlansStand
  <2>2. ApprovalsReserve
    BY DEF AcquisitionInvariant
  <2> QED BY <1>2, <2>1, <2>2 DEF ApprovalsReserve, Finished
<1>4. ReceiptsAreOfPlans'
  BY <1>2 DEF AcquisitionInvariant, ReceiptsAreOfPlans, ApprovalsReserve
<1>5. ContactsAreUnique' /\ AttemptsAreCounted'
  BY DEF AcquisitionInvariant, ContactsAreUnique, AttemptsAreCounted
<1> QED BY <1>1, <1>3, <1>4, <1>5 DEF AcquisitionInvariant, ExecutorsFit

\* Campaigns that are not finished by this step were delivered before.
LEMMA FinishedStay ==
  ASSUME AcquisitionInvariant, UNCHANGED <<operations, receipts>>, PlansStand,
         NEW k \in Keys, Finished(k)' => campaigns'[k].status = campaigns[k].status
  PROVE  Finished(k)' => \A r \in PlanOf(k)' :
           /\ <<k, r.id>> \in DOMAIN receipts' /\ operations'[<<k, r.id>>].status = "completed"
           /\ campaigns'[k].status = "SETTLED" => receipts'[<<k, r.id>>].observed
<1> SUFFICES ASSUME Finished(k)'
             PROVE \A r \in PlanOf(k)' :
           /\ <<k, r.id>> \in DOMAIN receipts' /\ operations'[<<k, r.id>>].status = "completed"
           /\ campaigns'[k].status = "SETTLED" => receipts'[<<k, r.id>>].observed
  OBVIOUS
<1>1. Finished(k) /\ campaigns'[k].status = campaigns[k].status
  BY DEF Finished
<1>2. PlanOf(k)' = PlanOf(k)
  BY <1>1 DEF AcquisitionInvariant, ApprovalsReserve, Finished, PlansStand, PlanOf
<1> QED BY <1>1, <1>2 DEF AcquisitionInvariant, FinishedIsDelivered, Finished, PlanOf

LEMMA ProposeKeeps ==
  ASSUME AcquisitionInvariant, NEW k \in Keys, NEW b, NEW m, Propose(k, b, m) \/ Review(k)
  PROVE  AcquisitionInvariant'
<1> DEFINE plan == Selection(b, m)
<1>1. DOMAIN campaigns = Keys /\ \A j \in Keys : RowOf(campaigns[j])
  BY DEF AcquisitionInvariant, AcquisitionTypes, RowOf
<1>2. /\ DOMAIN campaigns' = Keys /\ \A j \in Keys \ {k} : campaigns'[j] = campaigns[j]
      /\ RowOf(campaigns'[k]) /\ campaigns'[k].approved = campaigns[k].approved
      /\ campaigns[k].approved => campaigns'[k].plan = campaigns[k].plan
      /\ ~Finished(k)'
  <2>1. CASE Review(k)
    <3>1. campaigns' = [campaigns EXCEPT ![k].status = "PROPOSED"]
      BY <2>1 DEF Review
    <3>2. campaigns'[k] = [campaigns[k] EXCEPT !.status = "PROPOSED"]
      BY <1>1, <3>1
    <3> QED BY <1>1, <3>1, <3>2 DEF RowOf, Finished
  <2>2. CASE Propose(k, b, m)
    <3>1. /\ campaigns[k] = NoCampaign
          /\ campaigns' = [campaigns EXCEPT ![k] =
               [status |-> IF Blockers # {} \/ plan = <<>> THEN "REVIEW_REQUIRED" ELSE "PROPOSED",
                budget |-> b, method |-> m, plan |-> plan, approved |-> FALSE]]
      BY <2>2 DEF Propose
    <3> HIDE DEF plan
    <3>2. campaigns'[k] =
               [status |-> IF Blockers # {} \/ plan = <<>> THEN "REVIEW_REQUIRED" ELSE "PROPOSED",
                budget |-> b, method |-> m, plan |-> plan, approved |-> FALSE]
      BY <1>1, <3>1
    <3>3. campaigns[k].approved = FALSE
      BY <3>1 DEF NoCampaign
    <3> QED BY <1>1, <3>1, <3>2, <3>3 DEF RowOf, Finished
  <2> QED BY <2>1, <2>2
<1>3. UNCHANGED <<contacts, operations, receipts, executor>>
  BY DEF Propose, Review
<1>4. PlansStand
  BY <1>2 DEF PlansStand
<1>5. ExecutorsFit'
  <2>1. \A e \in Executors : AtWorkOnPlans(e)'
    BY <1>3, <1>4, OthersWorkOn
  <2> QED BY <1>3, <2>1 DEF ExecutorsFit, AcquisitionInvariant, AcquisitionTypes
<1>6. \A j \in Keys : /\ RowOf(campaigns'[j])
                      /\ campaigns'[j].approved => campaigns[j].approved
                      /\ Finished(j)' => campaigns[j].approved
  BY <1>1, <1>2 DEF Finished, AcquisitionInvariant, ApprovalsReserve
<1>7. FinishedIsDelivered'
  <2>1. \A j \in Keys : Finished(j)' => campaigns'[j].status = campaigns[j].status
    BY <1>2
  <2> QED BY <1>3, <1>4, <2>1, FinishedStay DEF FinishedIsDelivered, Finished, PlanOf
<1> QED BY <1>2, <1>3, <1>4, <1>5, <1>6, <1>7, LedgerRests

\* What does not touch the tables of campaigns, operations and receipts.
LEMMA ExecutorMovesOnly ==
  ASSUME AcquisitionInvariant, NEW e \in Executors, Skip(e) \/ Invalid(e) \/ ExecutorDies(e)
  PROVE  AcquisitionInvariant'
<1>1. UNCHANGED <<campaigns, contacts, operations, receipts>>
  BY DEF Skip, Invalid, ExecutorDies
<1>2. PlansStand
  BY <1>1 DEF PlansStand
<1>3. ExecutorsFit'
  <2>1. Raises(e) \/ (GoOn(e) /\ executor[e].step # "idle")
    BY DEF Skip, Invalid, ExecutorDies, At
  <2> QED BY <1>1, <1>2, <2>1, MoversWorkOn DEF ExecutorsFit
<1>4. \A k \in Keys : /\ RowOf(campaigns'[k])
                      /\ campaigns'[k].approved => campaigns[k].approved
                      /\ Finished(k)' => campaigns[k].approved
  BY <1>1 DEF RowOf, Finished, AcquisitionInvariant, AcquisitionTypes, ApprovalsReserve
<1>5. FinishedIsDelivered'
  BY <1>1, <1>2, FinishedStay DEF FinishedIsDelivered, Finished, PlanOf
<1>6. DOMAIN campaigns' = Keys
  BY <1>1 DEF AcquisitionInvariant, AcquisitionTypes
<1> QED BY <1>1, <1>2, <1>3, <1>4, <1>5, <1>6, LedgerRests

LEMMA BeginKeeps ==
  ASSUME AcquisitionInvariant, NEW e \in Executors, NEW k \in Keys, NEW failure \in Failures,
         Begin(e, k, failure)
  PROVE  AcquisitionInvariant'
<1> DEFINE row == [key |-> k, index |-> 1, failure |-> failure, step |-> Turn(k, 1)]
<1>1. DOMAIN campaigns = Keys /\ \A j \in Keys : RowOf(campaigns[j])
  BY DEF AcquisitionInvariant, AcquisitionTypes, RowOf
<1>2. /\ campaigns' = [campaigns EXCEPT ![k].status = "EXECUTING"]
      /\ campaigns[k].approved
      /\ UNCHANGED <<contacts, operations, receipts>>
      /\ executor' = [executor EXCEPT ![e] = row]
  BY DEF Begin
<1>3. campaigns'[k] = [campaigns[k] EXCEPT !.status = "EXECUTING"]
  BY <1>1, <1>2
<1>4. /\ DOMAIN campaigns' = Keys /\ \A j \in Keys \ {k} : campaigns'[j] = campaigns[j]
      /\ RowOf(campaigns'[k]) /\ campaigns'[k].approved = campaigns[k].approved
      /\ campaigns'[k].plan = campaigns[k].plan /\ ~Finished(k)'
  BY <1>1, <1>2, <1>3 DEF RowOf, Finished
<1>5. PlansStand
  BY <1>4 DEF PlansStand
<1>6. ExecutorsFit'
  <2>1. \A x \in Executors \ {e} : executor'[x] = executor[x]
    BY <1>2 DEF AcquisitionInvariant, AcquisitionTypes
  <2>2. /\ Turn(k, 1) \in {"attempt", "finish"}
        /\ Turn(k, 1) = "attempt" => 1 \in DOMAIN campaigns[k].plan
    BY DEF Turn
  <2>3. row \in [key : Keys \cup {"none"}, index : Nat, failure : Failures \cup {"none"},
                 step : {"idle", "attempt", "complete", "finish"}]
    BY <2>2
  <2>4. executor'[e] = row
    BY <1>2 DEF AcquisitionInvariant, AcquisitionTypes
  <2>5. AtWorkOnPlans(e)'
    BY <1>2, <1>4, <2>2, <2>4 DEF AtWorkOnPlans
  <2>6. \A x \in Executors : AtWorkOnPlans(x)'
    BY <1>2, <1>5, <2>1, <2>5, OthersWorkOn
  <2>7. executor' \in [Executors -> [key : Keys \cup {"none"}, index : Nat,
                                     failure : Failures \cup {"none"},
                                     step : {"idle", "attempt", "complete", "finish"}]]
    <3> HIDE DEF row
    <3> QED BY <1>2, <2>3 DEF AcquisitionInvariant, AcquisitionTypes
  <2> QED BY <2>6, <2>7 DEF ExecutorsFit
<1>7. \A j \in Keys : /\ RowOf(campaigns'[j])
                      /\ campaigns'[j].approved => campaigns[j].approved
                      /\ Finished(j)' => campaigns[j].approved
  BY <1>1, <1>4 DEF Finished, AcquisitionInvariant, ApprovalsReserve
<1>8. FinishedIsDelivered'
  <2>1. \A j \in Keys : Finished(j)' => campaigns'[j].status = campaigns[j].status
    BY <1>4
  <2> QED BY <1>2, <1>5, <2>1, FinishedStay DEF FinishedIsDelivered, Finished, PlanOf
<1> QED BY <1>2, <1>4, <1>5, <1>6, <1>7, <1>8, LedgerRests

LEMMA EndExecutionKeeps ==
  ASSUME AcquisitionInvariant, NEW e \in Executors, EndExecution(e)
  PROVE  AcquisitionInvariant'
<1>0. PICK k \in Keys : /\ k = executor[e].key /\ campaigns[k].approved
                       /\ executor[e].step = "finish"
  BY DEF EndExecution, At, AcquisitionInvariant, AtWorkOnPlans
<1> DEFINE status == IF Outstanding(k) THEN "FAILED" ELSE "COMPLETED"
<1>1. DOMAIN campaigns = Keys /\ \A j \in Keys : RowOf(campaigns[j])
  BY DEF AcquisitionInvariant, AcquisitionTypes, RowOf
<1>2. /\ campaigns' = [campaigns EXCEPT ![k].status = status]
      /\ UNCHANGED <<contacts, operations, receipts>> /\ Raises(e)
  BY <1>0 DEF EndExecution
<1>4. /\ DOMAIN campaigns' = Keys /\ \A j \in Keys \ {k} : campaigns'[j] = campaigns[j]
      /\ RowOf(campaigns'[k]) /\ campaigns'[k].approved = campaigns[k].approved
      /\ campaigns'[k].plan = campaigns[k].plan /\ campaigns'[k].status = status
  <2> HIDE DEF status
  <2>1. campaigns'[k] = [campaigns[k] EXCEPT !.status = status]
    BY <1>0, <1>1, <1>2
  <2> QED BY <1>0, <1>1, <1>2, <2>1 DEF RowOf
<1>5. PlansStand
  BY <1>4 DEF PlansStand
<1>6. ExecutorsFit'
  BY <1>2, <1>5, MoversWorkOn DEF ExecutorsFit
<1>7. \A j \in Keys : /\ RowOf(campaigns'[j])
                      /\ campaigns'[j].approved => campaigns[j].approved
                      /\ Finished(j)' => campaigns[j].approved
  BY <1>0, <1>1, <1>4 DEF Finished, AcquisitionInvariant, ApprovalsReserve
<1>8. FinishedIsDelivered'
  <2>1. ASSUME Finished(k)'
        PROVE  \A r \in PlanOf(k)' :
                 /\ <<k, r.id>> \in DOMAIN receipts' /\ operations'[<<k, r.id>>].status = "completed"
                 /\ campaigns'[k].status = "SETTLED" => receipts'[<<k, r.id>>].observed
    <3>1. ~Outstanding(k) /\ campaigns'[k].status = "COMPLETED"
      BY <1>4, <2>1 DEF Finished
    <3>2. PlanOf(k)' = PlanOf(k)
      BY <1>4 DEF PlanOf
    <3>3. ASSUME NEW r \in PlanOf(k)
          PROVE  <<k, r.id>> \in DOMAIN receipts /\ operations[<<k, r.id>>].status = "completed"
      <4>1. <<k, r.id>> \in DOMAIN operations
        BY <1>0 DEF AcquisitionInvariant, ApprovalsReserve
      <4>2. operations[<<k, r.id>>].status = "completed"
        BY <3>1, <4>1 DEF Outstanding
      <4> QED BY <4>1, <4>2 DEF AcquisitionInvariant, ReceiptsAreOfPlans
    <3> QED BY <1>2, <3>1, <3>2, <3>3
  <2>2. \A j \in Keys \ {k} : Finished(j)' => campaigns'[j].status = campaigns[j].status
    BY <1>4
  <2> QED BY <1>2, <1>5, <2>1, <2>2, FinishedStay DEF FinishedIsDelivered, Finished, PlanOf
<1> QED BY <1>2, <1>4, <1>5, <1>6, <1>7, <1>8, LedgerRests

LEMMA IngestKeeps ==
  ASSUME AcquisitionInvariant, UNCHANGED <<campaigns, contacts, operations, receipts, executor>>
  PROVE  AcquisitionInvariant'
<1>1. AcquisitionTypes'
  BY DEF AcquisitionInvariant, AcquisitionTypes
<1>2. ApprovalsReserve' /\ ReceiptsAreOfPlans' /\ FinishedIsDelivered'
  BY DEF AcquisitionInvariant, ApprovalsReserve, ReceiptsAreOfPlans, FinishedIsDelivered, PlanOf
<1>3. ContactsAreUnique' /\ AttemptsAreCounted'
  BY DEF AcquisitionInvariant, ContactsAreUnique, AttemptsAreCounted
<1>4. PlansStand
  BY DEF PlansStand
<1>5. \A e \in Executors : AtWorkOnPlans(e)'
  BY <1>4, OthersWorkOn
<1> QED BY <1>1, <1>2, <1>3, <1>5 DEF AcquisitionInvariant

LEMMA AdvanceKeeps ==
  ASSUME AcquisitionInvariant, NEW days, Advance(days)
  PROVE  AcquisitionInvariant'
<1> DEFINE due == {o \in DOMAIN receipts : receipts[o].due <= day + days}
           open == {o[1] : o \in {p \in DOMAIN receipts \ due : ~receipts[p].observed}}
<1>1. /\ receipts' = [o \in DOMAIN receipts |->
                    IF o \in due THEN [receipts[o] EXCEPT !.observed = TRUE] ELSE receipts[o]]
      /\ campaigns' = [k \in Keys |->
            IF campaigns[k].status = "COMPLETED" /\ k \notin open
            THEN [campaigns[k] EXCEPT !.status = "SETTLED"] ELSE campaigns[k]]
      /\ UNCHANGED <<contacts, operations, executor>>
  BY DEF Advance
<1>2. \A k \in Keys : RowOf(campaigns[k])
  BY DEF AcquisitionInvariant, AcquisitionTypes, RowOf
<1>3. DOMAIN receipts' = DOMAIN receipts
  BY <1>1
<1>4. ASSUME NEW o \in DOMAIN receipts
      PROVE  /\ DOMAIN receipts'[o] = {"contact", "cost", "due", "observed"}
             /\ receipts'[o].contact = receipts[o].contact
             /\ receipts'[o].observed \in BOOLEAN
             /\ receipts[o].observed = TRUE => receipts'[o].observed = TRUE
             /\ o \in due => receipts'[o].observed = TRUE
             /\ o \notin due => receipts'[o] = receipts[o]
  <2>1. /\ DOMAIN receipts[o] = {"contact", "cost", "due", "observed"}
        /\ receipts[o].observed \in BOOLEAN
    BY DEF AcquisitionInvariant, AcquisitionTypes
  <2> HIDE DEF due
  <2>2. receipts'[o] = IF o \in due THEN [receipts[o] EXCEPT !.observed = TRUE] ELSE receipts[o]
    BY <1>1
  <2> QED BY <2>1, <2>2
<1>5. ASSUME NEW k \in Keys
      PROVE  /\ RowOf(campaigns'[k]) /\ campaigns'[k].approved = campaigns[k].approved
             /\ campaigns'[k].plan = campaigns[k].plan
             /\ Finished(k)' => Finished(k)
             /\ campaigns'[k].status = "SETTLED" /\ campaigns[k].status # "SETTLED" => k \notin open
  <2> HIDE DEF open
  <2>1. campaigns'[k] = IF campaigns[k].status = "COMPLETED" /\ k \notin open
                        THEN [campaigns[k] EXCEPT !.status = "SETTLED"] ELSE campaigns[k]
    BY <1>1
  <2> QED BY <1>2, <2>1 DEF RowOf, Finished
<1>6. DOMAIN campaigns' = Keys
  BY <1>1
<1>7. PlansStand /\ \A k \in Keys : PlanOf(k)' = PlanOf(k)
  BY <1>5 DEF PlansStand, PlanOf
<1> HIDE DEF due, open
<1>8. \A e \in Executors : AtWorkOnPlans(e)'
  BY <1>1, <1>3, <1>7, OthersWorkOn
<1>9. AcquisitionTypes'
  BY <1>1, <1>3, <1>4, <1>5, <1>6 DEF AcquisitionInvariant, AcquisitionTypes, RowOf
<1>10. ApprovalsReserve'
  BY <1>1, <1>5, <1>7 DEF AcquisitionInvariant, ApprovalsReserve, Finished
<1>11. ReceiptsAreOfPlans'
  BY <1>1, <1>3, <1>4, <1>7 DEF AcquisitionInvariant, ReceiptsAreOfPlans, ApprovalsReserve
<1>12. ContactsAreUnique' /\ AttemptsAreCounted'
  BY <1>1, <1>3, <1>4 DEF AcquisitionInvariant, ContactsAreUnique, AttemptsAreCounted
<1>13. FinishedIsDelivered'
  <2> SUFFICES ASSUME NEW k \in Keys, Finished(k)', NEW r \in PlanOf(k)'
               PROVE  /\ <<k, r.id>> \in DOMAIN receipts' /\ operations'[<<k, r.id>>].status = "completed"
                      /\ campaigns'[k].status = "SETTLED" => receipts'[<<k, r.id>>].observed = TRUE
    BY DEF FinishedIsDelivered, Finished, PlanOf
  <2>1. r \in PlanOf(k) /\ Finished(k)
    BY <1>5, <1>7
  <2>2. /\ <<k, r.id>> \in DOMAIN receipts /\ operations[<<k, r.id>>].status = "completed"
        /\ campaigns[k].status = "SETTLED" => receipts[<<k, r.id>>].observed
    BY <2>1 DEF AcquisitionInvariant, FinishedIsDelivered, Finished, PlanOf
  <2>3. CASE campaigns[k].status = "SETTLED"
    BY <1>1, <1>3, <1>4, <2>2, <2>3
  <2>4. CASE campaigns[k].status # "SETTLED"
    <3>1. ASSUME k \notin open PROVE receipts'[<<k, r.id>>].observed = TRUE
      <4>1. CASE <<k, r.id>> \in due
        BY <1>4, <2>2, <4>1
      <4>2. CASE <<k, r.id>> \notin due
        <5>1. receipts[<<k, r.id>>].observed = TRUE
          <6>1. receipts[<<k, r.id>>].observed
            BY <2>2, <3>1, <4>2, <<k, r.id>>[1] = k DEF open
          <6>2. receipts[<<k, r.id>>].observed \in BOOLEAN
            BY <2>2 DEF AcquisitionInvariant, AcquisitionTypes
          <6> QED BY <6>1, <6>2
        <5> QED BY <1>4, <2>2, <5>1
      <4> QED BY <4>1, <4>2
    <3> QED BY <1>1, <1>3, <1>5, <2>2, <2>4, <3>1
  <2> QED BY <2>3, <2>4
<1> QED BY <1>8, <1>9, <1>10, <1>11, <1>12, <1>13 DEF AcquisitionInvariant

LEMMA ApproveKeeps ==
  ASSUME AcquisitionAssumption, AcquisitionInvariant, NEW k \in Keys, Approve(k)
  PROVE  AcquisitionInvariant'
<1> DEFINE plan == PlanOf(k)
           fresh == {<<k, r.id>> : r \in plan}
           pending == [status |-> "pending", attempts |-> 0]
<1>1. DOMAIN campaigns = Keys /\ \A j \in Keys : RowOf(campaigns[j])
  BY DEF AcquisitionInvariant, AcquisitionTypes, RowOf
<1>2. /\ ~campaigns[k].approved
      /\ campaigns' = [campaigns EXCEPT ![k].status = "APPROVED", ![k].approved = TRUE]
      /\ contacts' = contacts \cup {<<r.contact, k>> : r \in plan}
      /\ UNCHANGED <<receipts, executor>>
  BY DEF Approve, PlanOf
<1>3. /\ DOMAIN campaigns' = Keys /\ \A j \in Keys \ {k} : campaigns'[j] = campaigns[j]
      /\ RowOf(campaigns'[k]) /\ campaigns'[k].approved = TRUE
      /\ campaigns'[k].plan = campaigns[k].plan /\ campaigns'[k].status = "APPROVED"
  <2>1. campaigns'[k] = [campaigns[k] EXCEPT !.status = "APPROVED", !.approved = TRUE]
    BY <1>1, <1>2
  <2> QED BY <1>1, <1>2, <2>1 DEF RowOf
<1>4. /\ DOMAIN operations' = fresh \cup DOMAIN operations
      /\ \A o \in fresh : operations'[o] = pending
      /\ \A o \in DOMAIN operations : o \notin fresh => operations'[o] = operations[o]
  <2>1. operations' = Inserted(operations, fresh, pending)
    BY DEF Approve, PlanOf
  <2> HIDE DEF fresh, pending
  <2> QED BY <2>1 DEF Inserted
<1>5. \A o \in DOMAIN operations : o[1] # k /\ o \notin fresh
  BY <1>2 DEF AcquisitionInvariant, ApprovalsReserve
<1>6. \A o \in fresh : o[1] = k /\ o \notin DOMAIN receipts
  BY <1>5 DEF AcquisitionInvariant, ReceiptsAreOfPlans
<1>7. pending.status = "pending" /\ pending.attempts = 0 /\ DOMAIN pending = {"status", "attempts"}
  OBVIOUS
<1>8. PlansStand /\ \A j \in Keys : PlanOf(j)' = PlanOf(j)
  BY <1>3 DEF PlansStand, PlanOf
<1>9. \A e \in Executors : AtWorkOnPlans(e)'
  BY <1>2, <1>8, OthersWorkOn
<1> HIDE DEF pending
<1>10. AcquisitionTypes'
  <2> HIDE DEF fresh
  <2> QED BY <1>2, <1>3, <1>4, <1>7 DEF AcquisitionInvariant, AcquisitionTypes, RowOf
<1>11. ApprovalsReserve'
  <2>1. ASSUME NEW j \in Keys, campaigns'[j].approved, NEW r \in PlanOf(j)
        PROVE  <<r.contact, j>> \in contacts' /\ <<j, r.id>> \in DOMAIN operations'
    <3>1. CASE j = k
      BY <1>2, <1>4, <2>1, <3>1
    <3>2. CASE j # k
      <4> HIDE DEF fresh
      <4> QED BY <1>2, <1>3, <1>4, <2>1, <3>2 DEF AcquisitionInvariant, ApprovalsReserve
    <3> QED BY <3>1, <3>2
  <2>2. \A j \in Keys : campaigns'[j].status \in {"COMPLETED", "SETTLED"} => campaigns'[j].approved
    BY <1>3 DEF AcquisitionInvariant, ApprovalsReserve
  <2>3. \A o \in DOMAIN operations' : o[1] \in Keys /\ campaigns'[o[1]].approved
    <3> HIDE DEF fresh
    <3> QED BY <1>3, <1>4, <1>6 DEF AcquisitionInvariant, ApprovalsReserve
  <2> QED BY <1>8, <2>1, <2>2, <2>3 DEF ApprovalsReserve
<1> HIDE DEF fresh
<1>12. ReceiptsAreOfPlans'
  <2>1. ASSUME NEW o \in DOMAIN receipts
        PROVE  /\ o \in DOMAIN operations'
               /\ \E r \in PlanOf(o[1])' : o = <<o[1], r.id>> /\ receipts'[o].contact = r.contact
    BY <1>2, <1>4, <1>8 DEF AcquisitionInvariant, ReceiptsAreOfPlans, ApprovalsReserve
  <2>2. \A o \in DOMAIN operations' : operations'[o].status = "completed" => o \in DOMAIN receipts
    BY <1>4, <1>5, <1>7 DEF AcquisitionInvariant, ReceiptsAreOfPlans
  <2> QED BY <1>2, <2>1, <2>2 DEF ReceiptsAreOfPlans
<1>13. ContactsAreUnique' /\ AttemptsAreCounted'
  <2>1. \A o \in DOMAIN operations' :
          operations'[o].attempts \in (IF o \in DOMAIN receipts THEN 1 ELSE 0)..MaxAttempts
    <3>1. \A o \in fresh : operations'[o].attempts = 0 /\ o \notin DOMAIN receipts
      BY <1>4, <1>6, <1>7
    <3>2. 0 \in 0..MaxAttempts
      BY AcquisitionAssumption DEF AcquisitionAssumption
    <3>3. \A o \in DOMAIN operations : operations'[o] = operations[o]
      BY <1>4, <1>5
    <3> QED BY <1>4, <3>1, <3>2, <3>3 DEF AcquisitionInvariant, AttemptsAreCounted
  <2> QED BY <1>2, <2>1 DEF AcquisitionInvariant, ContactsAreUnique, AttemptsAreCounted
<1>14. FinishedIsDelivered'
  <2> SUFFICES ASSUME NEW j \in Keys, Finished(j)', NEW r \in PlanOf(j)'
               PROVE  /\ <<j, r.id>> \in DOMAIN receipts' /\ operations'[<<j, r.id>>].status = "completed"
                      /\ campaigns'[j].status = "SETTLED" => receipts'[<<j, r.id>>].observed
    BY DEF FinishedIsDelivered, Finished, PlanOf
  <2>1. j # k /\ campaigns'[j] = campaigns[j]
    BY <1>3 DEF Finished
  <2>2. /\ <<j, r.id>> \in DOMAIN receipts /\ operations[<<j, r.id>>].status = "completed"
        /\ campaigns[j].status = "SETTLED" => receipts[<<j, r.id>>].observed
    BY <1>8, <2>1 DEF AcquisitionInvariant, FinishedIsDelivered, Finished, PlanOf
  <2>3. operations'[<<j, r.id>>] = operations[<<j, r.id>>]
    BY <1>4, <1>5, <2>2 DEF AcquisitionInvariant, ReceiptsAreOfPlans
  <2> QED BY <1>2, <2>1, <2>2, <2>3
<1> QED BY <1>9, <1>10, <1>11, <1>12, <1>13, <1>14 DEF AcquisitionInvariant

\* Who works on a record works on a record of its plan, which has an operation.
LEMMA WorksOnPlan ==
  ASSUME AcquisitionInvariant, NEW e \in Executors, executor[e].step \in {"attempt", "complete"}
  PROVE  \E k \in Keys : /\ k = executor[e].key /\ campaigns[k].approved
                         /\ Record(e) \in PlanOf(k) /\ Operation(e) = <<k, Record(e).id>>
                         /\ Operation(e) \in DOMAIN operations
                         /\ <<Record(e).contact, k>> \in contacts
<1>1. PICK k \in Keys : k = executor[e].key
  BY DEF AcquisitionInvariant, AtWorkOnPlans
<1>2. campaigns[k].approved /\ executor[e].index \in DOMAIN campaigns[k].plan
  BY <1>1 DEF AcquisitionInvariant, AtWorkOnPlans
<1>3. Record(e) = campaigns[k].plan[executor[e].index]
  BY <1>1 DEF Record, Plan
<1>4. Record(e) \in PlanOf(k)
  BY <1>2, <1>3 DEF PlanOf, ToSet
<1>5. Operation(e) = <<k, Record(e).id>>
  BY <1>1 DEF Operation
<1> QED BY <1>1, <1>2, <1>4, <1>5 DEF AcquisitionInvariant, ApprovalsReserve

\* What an attempt, a reconciliation or an acknowledgement does to its operation.
LEMMA OperationMoves ==
  ASSUME AcquisitionAssumption, AcquisitionInvariant, NEW op \in DOMAIN operations, NEW row,
         operations' = [operations EXCEPT ![op] = row], DOMAIN row = {"status", "attempts"},
         operations[op].status = "completed" => row.status = "completed",
         row.status = "completed" => op \in DOMAIN receipts,
         row.attempts \in (IF op \in DOMAIN receipts THEN 1 ELSE 0)..MaxAttempts,
         UNCHANGED <<campaigns, contacts, receipts>>, ExecutorsFit'
  PROVE  AcquisitionInvariant'
<1>1. /\ DOMAIN operations' = DOMAIN operations /\ operations'[op] = row
      /\ \A o \in DOMAIN operations \ {op} : operations'[o] = operations[o]
  OBVIOUS
<1>2. AcquisitionTypes'
  BY <1>1 DEF AcquisitionInvariant, AcquisitionTypes, ExecutorsFit
<1>3. ApprovalsReserve'
  BY <1>1 DEF AcquisitionInvariant, ApprovalsReserve, PlanOf
<1>4. ReceiptsAreOfPlans'
  BY <1>1 DEF AcquisitionInvariant, ReceiptsAreOfPlans, PlanOf
<1>5. ContactsAreUnique' /\ AttemptsAreCounted'
  BY <1>1 DEF AcquisitionInvariant, ContactsAreUnique, AttemptsAreCounted
<1>6. FinishedIsDelivered'
  <2>1. \A o \in DOMAIN operations : operations[o].status = "completed" =>
          o \in DOMAIN operations' /\ operations'[o].status = "completed"
    BY <1>1
  <2>2. \A o \in DOMAIN receipts : o \in DOMAIN operations
    BY DEF AcquisitionInvariant, ReceiptsAreOfPlans
  <2> QED BY <2>1, <2>2 DEF AcquisitionInvariant, FinishedIsDelivered
<1> QED BY <1>2, <1>3, <1>4, <1>5, <1>6 DEF AcquisitionInvariant, ExecutorsFit

LEMMA AttemptKeeps ==
  ASSUME AcquisitionAssumption, AcquisitionInvariant, NEW e \in Executors,
         Reconcile(e) \/ Complete(e) \/ FailAttempt(e)
  PROVE  AcquisitionInvariant'
<1> DEFINE op == Operation(e)
<1>1. /\ executor[e].step \in {"attempt", "complete"}
      /\ UNCHANGED <<campaigns, contacts, receipts>> /\ GoOn(e)
  BY DEF Reconcile, Complete, FailAttempt, Attempting, At
<1>2. PlansStand
  BY <1>1 DEF PlansStand
<1>3. ExecutorsFit'
  BY <1>1, <1>2, MoversWorkOn DEF ExecutorsFit
<1>4. op \in DOMAIN operations /\ DOMAIN operations[op] = {"status", "attempts"}
      /\ operations[op].attempts \in (IF op \in DOMAIN receipts THEN 1 ELSE 0)..MaxAttempts
  <2>1. op \in DOMAIN operations
    BY <1>1, WorksOnPlan
  <2> HIDE DEF op
  <2> QED BY <2>1 DEF AcquisitionInvariant, AcquisitionTypes, AttemptsAreCounted
<1>5. CASE Reconcile(e) \/ Complete(e)
  <2>1. op \in DOMAIN receipts
    BY <1>5 DEF Reconcile, Delivered, Complete, At, AcquisitionInvariant, AtWorkOnPlans
  <2>2. operations' = [operations EXCEPT ![op].status = "completed"]
    BY <1>5 DEF Reconcile, Complete
  <2> HIDE DEF op
  <2> DEFINE row == [operations[op] EXCEPT !.status = "completed"]
  <2>3. operations' = [operations EXCEPT ![op] = row]
    BY <2>2
  <2>4. /\ DOMAIN row = {"status", "attempts"} /\ row.status = "completed"
        /\ row.attempts = operations[op].attempts
    BY <1>4
  <2> HIDE DEF row
  <2> QED BY <1>1, <1>3, <1>4, <2>1, <2>3, <2>4, OperationMoves
<1>6. CASE FailAttempt(e)
  <2> DEFINE row == [status |-> "failed", attempts |-> operations[op].attempts + 1]
  <2>1. /\ operations' = [operations EXCEPT ![op] = row]
        /\ operations[op].status # "completed" /\ op \notin DOMAIN receipts
        /\ ~(operations[op].attempts >= MaxAttempts)
    BY <1>4, <1>6 DEF FailAttempt, Attempting, Attempted, Done, Delivered, Tired
  <2> HIDE DEF op
  <2>2. row.attempts \in (IF op \in DOMAIN receipts THEN 1 ELSE 0)..MaxAttempts
    BY <1>4, <2>1, AcquisitionAssumption DEF AcquisitionAssumption
  <2>3. DOMAIN row = {"status", "attempts"} /\ row.status = "failed"
    OBVIOUS
  <2> HIDE DEF row
  <2> QED BY <1>1, <1>3, <1>4, <2>1, <2>2, <2>3, OperationMoves
<1> QED BY <1>5, <1>6

LEMMA DeliverKeeps ==
  ASSUME AcquisitionAssumption, AcquisitionInvariant, NEW e \in Executors, Deliver(e)
  PROVE  AcquisitionInvariant'
<1> DEFINE op == Operation(e)
           r == Record(e)
           row == [contact |-> r.contact, cost |-> r.cost, due |-> day + r.delay,
                   observed |-> FALSE]
           tried == [status |-> "pending", attempts |-> operations[op].attempts + 1]
<1>1. /\ executor[e].step = "attempt" /\ op \notin DOMAIN receipts
      /\ operations[op].status # "completed" /\ ~(operations[op].attempts >= MaxAttempts)
      /\ Valid(executor[e].key)
      /\ operations' = [operations EXCEPT ![op] =
                          [status |-> "pending", attempts |-> @.attempts + 1]]
      /\ receipts' = Inserted(receipts, {op}, row)
      /\ UNCHANGED <<prospects, campaigns, contacts>>
      /\ Raises(e) \/ executor' = [executor EXCEPT ![e].step = "complete"]
  BY DEF Deliver, Attempting, At, Done, Delivered, Tired, Attempted
<1>2. PICK k \in Keys : /\ k = executor[e].key /\ campaigns[k].approved
                        /\ r \in PlanOf(k) /\ op = <<k, r.id>> /\ op \in DOMAIN operations
                        /\ <<r.contact, k>> \in contacts
  BY <1>1, WorksOnPlan
\* Nobody else has this contact: no other campaign reserved it, no other record of the plan has it.
<1>3. \A o \in DOMAIN receipts : receipts[o].contact # r.contact
  <2> SUFFICES ASSUME NEW o \in DOMAIN receipts, receipts[o].contact = r.contact PROVE FALSE
    OBVIOUS
  <2>1. PICK s \in PlanOf(o[1]) : o = <<o[1], s.id>> /\ s.contact = r.contact
    BY DEF AcquisitionInvariant, ReceiptsAreOfPlans
  <2>2. o[1] \in Keys /\ campaigns[o[1]].approved
    BY DEF AcquisitionInvariant, ReceiptsAreOfPlans, ApprovalsReserve
  <2>3. <<r.contact, o[1]>> \in contacts
    BY <2>1, <2>2 DEF AcquisitionInvariant, ApprovalsReserve
  <2>4. o[1] = k
    BY <1>1, <1>2, <2>2, <2>3 DEF Valid, PlanOf
  <2>5. r \in prospects /\ s \in prospects /\ ~Ambiguous(r)
    BY <1>1, <1>2, <2>1, <2>4 DEF Valid, PlanOf
  <2>6. s = r
    BY <2>1, <2>5 DEF Ambiguous
  <2> QED BY <1>1, <1>2, <2>1, <2>4, <2>6
<1>4. /\ DOMAIN receipts' = DOMAIN receipts \cup {op} /\ receipts'[op] = row
      /\ \A o \in DOMAIN receipts : receipts'[o] = receipts[o]
  <2> HIDE DEF op, row
  <2> QED BY <1>1 DEF Inserted
<1>5. row.contact = r.contact /\ row.observed = FALSE
      /\ DOMAIN row = {"contact", "cost", "due", "observed"}
  OBVIOUS
<1>6. /\ DOMAIN operations' = DOMAIN operations /\ operations'[op] = tried
      /\ \A o \in DOMAIN operations \ {op} : operations'[o] = operations[o]
  <2> HIDE DEF op
  <2> QED BY <1>1, <1>2
<1>7. /\ tried.status = "pending" /\ DOMAIN tried = {"status", "attempts"}
      /\ tried.attempts \in 1..MaxAttempts
  <2>1. operations[op].attempts \in 0..MaxAttempts
    <3> HIDE DEF op
    <3> QED BY <1>1, <1>2 DEF AcquisitionInvariant, AttemptsAreCounted
  <2> QED BY <1>1, <2>1, AcquisitionAssumption DEF AcquisitionAssumption
<1>8. PlansStand /\ UNCHANGED campaigns
  BY <1>1 DEF PlansStand
<1>9. ExecutorsFit'
  <2>1. CASE Raises(e)
    BY <1>4, <1>8, <2>1, MoversWorkOn DEF ExecutorsFit
  <2>2. CASE executor' = [executor EXCEPT ![e].step = "complete"]
    <3>1. /\ executor'[e] = [executor[e] EXCEPT !.step = "complete"]
          /\ \A x \in Executors \ {e} : executor'[x] = executor[x]
      BY <2>2 DEF AcquisitionInvariant, AcquisitionTypes
    <3>2. executor[e] \in [key : Keys \cup {"none"}, index : Nat, failure : Failures \cup {"none"},
                           step : {"idle", "attempt", "complete", "finish"}]
      BY DEF AcquisitionInvariant, AcquisitionTypes
    <3>3. /\ executor'[e].key = executor[e].key /\ executor'[e].index = executor[e].index
          /\ executor'[e].step = "complete"
          /\ executor'[e] \in [key : Keys \cup {"none"}, index : Nat, failure : Failures \cup {"none"},
                               step : {"idle", "attempt", "complete", "finish"}]
      BY <3>1, <3>2
    <3>4. executor' \in [Executors -> [key : Keys \cup {"none"}, index : Nat,
                                       failure : Failures \cup {"none"},
                                       step : {"idle", "attempt", "complete", "finish"}]]
      BY <2>2, <3>2 DEF AcquisitionInvariant, AcquisitionTypes
    <3>5. AtWorkOnPlans(e)
      BY DEF AcquisitionInvariant
    <3>6. Operation(e)' = op
      BY <1>8, <3>3 DEF Operation, Record, Plan
    <3>7. AtWorkOnPlans(e)'
      <4> HIDE DEF op
      <4> QED BY <1>1, <1>4, <1>8, <3>3, <3>5, <3>6 DEF AtWorkOnPlans
    <3>8. \A x \in Executors : AtWorkOnPlans(x)'
      BY <1>4, <1>8, <3>1, <3>7, OthersWorkOn
    <3> QED BY <3>4, <3>8 DEF ExecutorsFit
  <2> QED BY <1>1, <2>1, <2>2
<1> HIDE DEF op, row, tried, r
<1>10. AcquisitionTypes'
  <2>1. \A o \in DOMAIN receipts' : /\ DOMAIN receipts'[o] = {"contact", "cost", "due", "observed"}
                                    /\ receipts'[o].observed \in BOOLEAN
    <3>1. \A o \in DOMAIN receipts : /\ DOMAIN receipts[o] = {"contact", "cost", "due", "observed"}
                                     /\ receipts[o].observed \in BOOLEAN
      BY DEF AcquisitionInvariant, AcquisitionTypes
    <3>2. row.observed \in BOOLEAN
      BY <1>5
    <3> QED BY <1>4, <1>5, <3>1, <3>2
  <2>2. \A o \in DOMAIN operations' : DOMAIN operations'[o] = {"status", "attempts"}
    BY <1>6, <1>7 DEF AcquisitionInvariant, AcquisitionTypes
  <2> QED BY <1>8, <1>9, <2>1, <2>2 DEF AcquisitionInvariant, AcquisitionTypes, ExecutorsFit
<1>11. \A j \in Keys : PlanOf(j)' = PlanOf(j)
  BY <1>8 DEF PlanOf
<1>12. ApprovalsReserve'
  BY <1>1, <1>6, <1>11 DEF AcquisitionInvariant, ApprovalsReserve
<1>13. ReceiptsAreOfPlans'
  <2>1. ASSUME NEW o \in DOMAIN receipts'
        PROVE  /\ o \in DOMAIN operations'
               /\ \E s \in PlanOf(o[1])' : o = <<o[1], s.id>> /\ receipts'[o].contact = s.contact
    <3>1. CASE o = op
      BY <1>2, <1>4, <1>5, <1>6, <1>11, <3>1
    <3>2. CASE o # op
      BY <1>4, <1>6, <1>11, <2>1, <3>2
      DEF AcquisitionInvariant, ReceiptsAreOfPlans, ApprovalsReserve
    <3> QED BY <3>1, <3>2
  <2>2. \A o \in DOMAIN operations' : operations'[o].status = "completed" => o \in DOMAIN receipts'
    BY <1>4, <1>6, <1>7 DEF AcquisitionInvariant, ReceiptsAreOfPlans
  <2> QED BY <2>1, <2>2 DEF ReceiptsAreOfPlans
<1>14. ContactsAreUnique'
  BY <1>3, <1>4, <1>5 DEF AcquisitionInvariant, ContactsAreUnique
<1>15. AttemptsAreCounted'
  BY <1>4, <1>6, <1>7 DEF AcquisitionInvariant, AttemptsAreCounted
<1>16. FinishedIsDelivered'
  <2> SUFFICES ASSUME NEW j \in Keys, Finished(j)', NEW s \in PlanOf(j)'
               PROVE  /\ <<j, s.id>> \in DOMAIN receipts' /\ operations'[<<j, s.id>>].status = "completed"
                      /\ campaigns'[j].status = "SETTLED" => receipts'[<<j, s.id>>].observed
    BY DEF FinishedIsDelivered, Finished, PlanOf
  <2>1. /\ <<j, s.id>> \in DOMAIN receipts /\ operations[<<j, s.id>>].status = "completed"
        /\ campaigns[j].status = "SETTLED" => receipts[<<j, s.id>>].observed
    BY <1>8, <1>11 DEF AcquisitionInvariant, FinishedIsDelivered, Finished, PlanOf
  <2>2. <<j, s.id>> # op /\ <<j, s.id>> \in DOMAIN operations
    BY <1>1, <2>1 DEF AcquisitionInvariant, ReceiptsAreOfPlans
  <2> QED BY <1>4, <1>6, <1>8, <2>1, <2>2
<1> QED BY <1>9, <1>10, <1>12, <1>13, <1>14, <1>15, <1>16 DEF AcquisitionInvariant, ExecutorsFit

LEMMA AcquisitionStep ==
  ASSUME AcquisitionAssumption, AcquisitionInvariant, [AcquisitionNext]_avars
  PROVE  AcquisitionInvariant'
<1>1. CASE UNCHANGED avars \/ \E r \in Records : Ingest(r)
  <2>1. UNCHANGED <<campaigns, contacts, operations, receipts, executor>>
    BY <1>1 DEF avars, Ingest
  <2> QED BY <2>1, IngestKeeps
<1>2. ASSUME NEW k \in Keys, \/ Review(k) \/ Approve(k)
                             \/ \E b \in Budgets, m \in Methods : Propose(k, b, m)
      PROVE  AcquisitionInvariant'
  BY <1>2, ProposeKeeps, ApproveKeeps
<1>3. ASSUME NEW days \in 1..MaxDay, Advance(days) PROVE AcquisitionInvariant'
  BY <1>3, AdvanceKeeps
<1>4. ASSUME NEW e \in Executors, Execute(e) PROVE AcquisitionInvariant'
  BY <1>4, BeginKeeps, ExecutorMovesOnly, AttemptKeeps, DeliverKeeps, EndExecutionKeeps
  DEF Execute
<1> QED BY <1>1, <1>2, <1>3, <1>4 DEF AcquisitionNext

\* Whoever executes a campaign, how often, and wherever it dies: approvals, operations, receipts
\* and the places of the processes go together.
THEOREM AcquisitionInvariantHolds ==
  ASSUME AcquisitionAssumption PROVE AcquisitionSpec => []AcquisitionInvariant
<1>1. AcquisitionInvariant /\ [AcquisitionNext]_avars => AcquisitionInvariant'
  BY AcquisitionAssumption, AcquisitionStep
<1> QED BY <1>1, AcquisitionStarts, PTL DEF AcquisitionSpec

\* Nobody is contacted twice, by the same campaign or by another, nor without an approval that
\* reserved the contact; attempts stay within their number; and what is called completed or
\* settled was delivered or observed (Store.approve, execute and advance of acquisition/core.py).
THEOREM NobodyIsContactedTwice ==
  ASSUME AcquisitionAssumption
  PROVE  AcquisitionSpec => [](ContactsAreApproved /\ AttemptsAreCounted /\ FinishedIsDelivered)
<1>1. AcquisitionInvariant => ContactsAreApproved
  BY DEF AcquisitionInvariant, ContactsAreApproved, ContactsAreUnique, ReceiptsAreOfPlans,
         ApprovalsReserve
<1>2. AcquisitionInvariant => AttemptsAreCounted /\ FinishedIsDelivered
  BY DEF AcquisitionInvariant
<1> QED BY <1>1, <1>2, AcquisitionInvariantHolds, PTL

===============================================================================
