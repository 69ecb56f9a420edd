-------------------------------- MODULE Routing --------------------------------
(***************************************************************************)
(* Which account, model and effort each attempt gets (control/routing.py), *)
(* as the history of attempts, the catalogs of the CLIs and the owner's    *)
(* pins change.  Which phase a task asks for next, and how many of its     *)
(* failures were charged, is module Leases'; here a task may ask for any.  *)
(*                                                                         *)
(* Abstracted: the words that make a request simple or risky, the seconds  *)
(* of measured routes (any measured one may be the quickest) and the order *)
(* of equal routes by the accounts' names.                                 *)
(***************************************************************************)
EXTENDS Integers, FiniteSets, Sequences

CONSTANTS
  Jobs,          \* tasks, each [complexity, risk, director, light]
  Slots,         \* accounts: identity -> [provider, model], as enrolled
  Catalogs,      \* account -> what its CLI may advertise: maps from models to efforts
  Samples,       \* 3: comparable successes before speed counts
  Choosable,     \* bound: pins the owner considers
  Window,        \* 100: attempts after which a refusal is forgotten
  MaxRouted, MaxChanges,  \* bounds: attempts, changes of pins and catalogs
  Unpinned       \* no pin: Auto, as the phone calls it

VARIABLES
  attempts,      \* in the order they were claimed
  catalog,       \* account -> capabilities(), <<>> when it is missing or stale
  pins,          \* meta routing_override
  changes

rvars == <<attempts, catalog, pins, changes>>

Providers == {"codex", "claude"}
Families == <<"luna", "sol61", "sol6", "terra", "astra">>
ClaudeChoices == {"sonnet", "opus", "fable"}
Efforts == 1..5     \* low, medium, high, xhigh, max

\* Accounts are of the two providers, and CLIs advertise efforts there are.
RoutingAssumption ==
  /\ Window \in Nat
  /\ \A a \in DOMAIN Slots : /\ Slots[a].provider \in Providers
                           /\ \A c \in Catalogs[a] : \A m \in DOMAIN c : c[m] \subseteq Efforts

RoutingInit ==
  /\ attempts = <<>> /\ changes = 0
  /\ catalog \in {c \in [DOMAIN Slots -> UNION {Catalogs[a] : a \in DOMAIN Slots}] :
                    \A a \in DOMAIN Slots : c[a] \in Catalogs[a]}
  /\ pins = [p \in Providers |-> Unpinned]

-------------------------------------------------------------------------------
Least(S) == CHOOSE n \in S : \A k \in S : n <= k
Most(S)  == CHOOSE n \in S : \A k \in S : k <= n

\* director_tier()
Tier(w) ==
  CASE w.phase = "direct" /\ w.repairs > 0 -> [model |-> "astra", effort |-> 3]
    [] w.phase = "direct"                  -> [model |-> "mid", effort |-> 3]
    [] w.repairs >= 2                      -> [model |-> "astra", effort |-> 5]
    [] w.repairs = 1                       -> [model |-> "astra", effort |-> 4]
    [] w.job.light                         -> [model |-> "mid", effort |-> 3]
    [] OTHER                               -> [model |-> "astra", effort |-> 3]

Easy(w) == w.job.complexity = "simple" /\ w.job.risk = "low" /\ w.repairs = 0
Usual(w) == w.job.complexity # "complex" /\ w.job.risk # "high" /\ w.repairs < 2

Offered(a, models) == SelectSeq(models, LAMBDA m : m \in DOMAIN catalog[a])
Levels(a, m) == IF m \in DOMAIN catalog[a] THEN catalog[a][m] ELSE {}

DirectorModels(w, a) ==
  LET able(models) == SelectSeq(models, LAMBDA m : Levels(a, m) # {})
      wanted == able(IF Tier(w).model = "mid" THEN <<"sol61", "sol6">> ELSE <<"astra">>) IN
  IF Slots[a].provider = "claude" THEN able(<<"fable">>)
  ELSE IF wanted # <<>> THEN wanted ELSE able(<<"astra">>)

\* The models to try on a, the cheapest that fits first.
Models(w, a) ==
  LET claude == Offered(a, IF Easy(w) THEN <<"haiku", "sonnet">>
                           ELSE IF Usual(w) THEN <<"sonnet">> ELSE <<"fable", "sonnet">>)
  IN CASE w.director -> DirectorModels(w, a)
       [] ~w.director /\ catalog[a] = <<>> -> <<Slots[a].model>>
       [] ~w.director /\ catalog[a] # <<>> /\ Slots[a].provider = "claude" ->
            IF claude # <<>> THEN claude ELSE <<Slots[a].model>>
       [] OTHER -> Offered(a, IF Easy(w) THEN Families
                              ELSE IF Usual(w) THEN Tail(Families)
                              ELSE <<"astra", "sol61", "sol6">>)

\* Mutant: what the CLI refused on one slot is known of that slot's last attempt only.
RefusedLast(a, m) ==
  \E i \in DOMAIN attempts :
    /\ attempts[i].account = a /\ attempts[i].model = m /\ attempts[i].state = "model_unavailable"
    /\ \A k \in i + 1 .. Len(attempts) : attempts[k].account # a
\* unavailable()
Unavailable(a, m) ==
  \E i \in DOMAIN attempts :
    /\ i > Len(attempts) - Window
    /\ attempts[i].account = a /\ attempts[i].model = m /\ attempts[i].state = "model_unavailable"

\* Mutant: a pin stands whatever the CLI said of its model.
PinStands(a, pinned) == pinned[Slots[a].provider]
\* The pin in force on a: one whose model was refused there falls back to Auto.
Pin(a, pinned) ==
  LET pin == pinned[Slots[a].provider] IN
  IF pin # Unpinned /\ Unavailable(a, pin.model) THEN Unpinned ELSE pin

Desired(w) ==
  CASE w.director -> Tier(w).effort
    [] ~w.director /\ w.repairs >= 2 -> 4
    [] ~w.director /\ w.repairs < 2 /\ (w.repairs > 0 \/ w.job.risk = "high"
                                          \/ w.job.complexity = "complex") -> 3
    [] OTHER -> IF w.job.complexity = "simple" THEN 1 ELSE 2

\* Mutant: the effort asked for, whether the model has it or not.
DesiredEffort(w, a, m) == Desired(w)
\* The nearest supported effort at or above the one desired, else the highest; 0 for the default.
Effort(w, a, m) ==
  LET above == {e \in Levels(a, m) : e >= Desired(w)} IN
  IF Levels(a, m) = {} THEN 0 ELSE IF above # {} THEN Least(above) ELSE Most(Levels(a, m))

\* What is tried on a under the owner's pins; a director's phase passes by a slot without a model
\* for it, whatever is pinned.
Tried(w, a, pinned) ==
  IF Pin(a, pinned) # Unpinned /\ (w.director => Models(w, a) # <<>>)
  THEN <<Pin(a, pinned).model>> ELSE Models(w, a)
Option(w, a, model, i, pinned) ==
  LET pin == Pin(a, pinned) IN
  [account |-> a, model |-> model, index |-> i,
   effort |-> IF pin # Unpinned THEN pin.effort ELSE Effort(w, a, model),
   skipped |-> pin # pinned[Slots[a].provider]]
OptionsOn(w, a, pinned) ==
  LET models == Tried(w, a, pinned) IN
  {Option(w, a, models[i], i, pinned) : i \in {i \in DOMAIN models : ~Unavailable(a, models[i])}}
Options(w, pinned) == UNION {OptionsOn(w, a, pinned) : a \in w.eligible}

\* The last build of the task that ended, when it did not pass.
FailedProvider(w) ==
  LET ended == {i \in DOMAIN attempts : /\ attempts[i].job = w.job /\ attempts[i].phase = "build"
                                        /\ attempts[i].state # "leased"} IN
  IF ended = {} \/ attempts[Most(ended)].state = "passed" THEN "none"
  ELSE Slots[attempts[Most(ended)].account].provider

Comparable(w, o) ==
  {i \in DOMAIN attempts :
     /\ attempts[i].account = o.account /\ attempts[i].model = o.model
     /\ attempts[i].phase = w.phase /\ attempts[i].state # "leased"
     /\ attempts[i].job.risk = w.job.risk /\ attempts[i].job.complexity = w.job.complexity}

\* What makes a route worse, the first difference deciding.
ScoreAfter(w, o, failed) ==
  LET provider == Slots[o.account].provider
      past == Comparable(w, o)
      passed == {i \in past : attempts[i].state = "passed"} IN
  << w.phase = "review" /\ provider = w.author,
     w.director /\ provider # "codex",
     w.repairs >= 2 /\ provider = failed,
     Cardinality(past) >= 2 /\ 2 * Cardinality(passed) <= Cardinality(past),
     w.job.risk = "high" /\ catalog[o.account] = <<>>,
     Cardinality(passed) < Samples >>
\* Mutant: the provider that failed the last build keeps its place.
ScoreForgiving(w, o) == ScoreAfter(w, o, "none")
Score(w, o) == ScoreAfter(w, o, FailedProvider(w))

Better(w, o, p) ==
  LET so == Score(w, o)
      sp == Score(w, p)
      differ == {i \in DOMAIN so : so[i] # sp[i]} IN
  IF differ # {} THEN sp[Least(differ)] ELSE so[Len(so)] /\ o.index < p.index

\* select_route(): none when nothing can take the phase.
SelectRoute(w, pinned) ==
  {o \in Options(w, pinned) : \A p \in Options(w, pinned) : ~Better(w, p, o)}

-------------------------------------------------------------------------------
Charged(job) == Cardinality({i \in DOMAIN attempts :
  attempts[i].job = job /\ attempts[i].state \in {"failed", "model_unavailable"}})

Built(job) == {i \in DOMAIN attempts : /\ attempts[i].job = job /\ attempts[i].phase = "build"
                                       /\ attempts[i].state = "passed"}

\* claim(): the accounts that are free and may serve the phase.
Eligible(job, phase, director) ==
  {a \in DOMAIN Slots :
     /\ \A i \in DOMAIN attempts : attempts[i].account = a => attempts[i].state # "leased"
     /\ director => Slots[a].provider = "codex" \/ 5 \in Levels(a, "fable")
     /\ phase = "review" => a # attempts[Most(Built(job))].account}

Want(job, phase, repairs) ==
  LET director == job.director /\ phase \notin {"build", "review"} IN
  [job |-> job, phase |-> phase, repairs |-> repairs, director |-> director,
   eligible |-> Eligible(job, phase, director),
   author |-> IF phase = "review" THEN Slots[attempts[Most(Built(job))].account].provider
              ELSE "none"]
\* What tasks may ask for now.
Asks(job) ==
  {ask \in {"plan", "direct", "build", "review"} \X (0..2) :
     /\ ask[1] = "review" => Built(job) # {}
     /\ ask[2] <= Charged(job)}
Wants == UNION {{Want(job, ask[1], ask[2]) : ask \in Asks(job)} : job \in Jobs}

Claim(w) ==
  /\ Len(attempts) < MaxRouted
  /\ \E o \in SelectRoute(w, pins) :
       attempts' = Append(attempts,
         [job |-> w.job, phase |-> w.phase, account |-> o.account, model |-> o.model,
          effort |-> o.effort, state |-> "leased", skipped |-> o.skipped])
  /\ UNCHANGED <<catalog, pins, changes>>

Conclude(i, state) ==
  /\ attempts[i].state = "leased"
  /\ attempts' = [attempts EXCEPT ![i].state = state]
  /\ UNCHANGED <<catalog, pins, changes>>

\* routing_options(): what the phone may pin a provider to.
Pinnable(provider) ==
  IF provider = "claude" THEN [model : ClaudeChoices, effort : Efforts]
  ELSE UNION {UNION {{[model |-> m, effort |-> e] : e \in catalog[a][m]} : m \in DOMAIN catalog[a]}
              : a \in {a \in DOMAIN Slots : Slots[a].provider = "codex"}}

\* control_routing()
Repin(provider) ==
  /\ changes < MaxChanges
  /\ \E pin \in (Pinnable(provider) \cap Choosable) \cup {Unpinned} :
       pin # pins[provider] /\ pins' = [pins EXCEPT ![provider] = pin]
  /\ changes' = changes + 1
  /\ UNCHANGED <<attempts, catalog>>

\* A catalog is refreshed, grows stale, or is lost.
Readvertise(a) ==
  /\ changes < MaxChanges
  /\ \E c \in Catalogs[a] \ {catalog[a]} : catalog' = [catalog EXCEPT ![a] = c]
  /\ changes' = changes + 1
  /\ UNCHANGED <<attempts, pins>>

RoutingNext ==
  \/ \E w \in Wants : Claim(w)
  \/ \E i \in DOMAIN attempts, state \in {"passed", "failed", "model_unavailable"} : Conclude(i, state)
  \/ \E p \in Providers : Repin(p)
  \/ \E a \in DOMAIN Slots : Readvertise(a)

RoutingSpec == RoutingInit /\ [][RoutingNext]_rvars

-------------------------------------------------------------------------------
\* A model the CLI refused on a slot is not asked of it again, whatever happened in between.
RefusedOnce ==
  \A k \in DOMAIN attempts : \A i \in 1 .. k - 1 :
    k - i <= Window /\ attempts[i].account = attempts[k].account
                    /\ attempts[i].model = attempts[k].model
      => attempts[i].state # "model_unavailable"

\* Work that Auto would route is not held up by the owner's pins.
PinsNeverBlock ==
  \A w \in Wants : Options(w, [p \in Providers |-> Unpinned]) # {} => Options(w, pins) # {}

\* After two repairs the provider of the failed build gets the next only when it must, and a
\* review goes to the author's own provider only when it must.
OthersGetTheirTurn ==
  \A w \in Wants :
    LET avoided == IF w.phase = "review" THEN w.author
                   ELSE IF w.phase = "build" /\ w.repairs = 2 THEN FailedProvider(w) ELSE "none" IN
    (\E o \in SelectRoute(w, pins) : Slots[o.account].provider = avoided)
      => \A o \in Options(w, pins) : Slots[o.account].provider = avoided

\* An effort that was not pinned is one the model has, and a further repair never gets less
\* of it from the same model.
EffortsFit ==
  \A w \in Wants : \A o \in Options(w, pins) :
    /\ pins[Slots[o.account].provider] = Unpinned \/ o.skipped
         => IF Levels(o.account, o.model) = {} THEN o.effort = 0
            ELSE o.effort \in Levels(o.account, o.model)
    /\ w.repairs < 2 =>
         \A p \in Options([w EXCEPT !.repairs = @ + 1], pins) :
           p.account = o.account /\ p.model = o.model => p.effort >= o.effort

RoutesAreSound ==
  RefusedOnce /\ (Len(attempts) < MaxRouted => PinsNeverBlock /\ OthersGetTheirTurn /\ EffortsFit)
===============================================================================
