------------------------------ MODULE Acquisition ------------------------------
(***************************************************************************)
(* The outreach laboratory (acquisition/core.py): campaigns are proposed,  *)
(* reviewed, approved by a person and executed against a mock provider,    *)
(* while records go on arriving, a second process may execute the same     *)
(* campaign, and either may die between two transactions.  Every action is *)
(* one BEGIN IMMEDIATE transaction of one database.                        *)
(***************************************************************************)
EXTENDS Integers, SequencesExt

CONSTANTS
  Records,      \* what may be ingested: id, contact, fit, cost, value, delay
  Keys,         \* event keys; a campaign's identity is made from its key alone
  Budgets, Methods,
  Executors,    \* processes that may call execute()
  Failures,     \* bound: the failures a caller may ask the mock provider for
  MaxAttempts,  \* provider attempts per operation, 3 in the source
  MaxDay        \* bound: the simulated clock

VARIABLES
  prospects,    \* table prospects: the records kept, one per id
  issues,       \* table ingest_issues: ids reported twice, differently
  campaigns,    \* table campaigns: key -> row, NoCampaign before it is proposed
  contacts,     \* table contacts: <<contact, key>>, reservations
  operations,   \* table operations: <<key, id>> -> row
  receipts,     \* table receipts: <<key, id>> -> row
  day,          \* meta: the simulated clock
  executor      \* process -> where it is in execute()

\* Attempts are counted.
AcquisitionAssumption == MaxAttempts \in Nat

avars == <<prospects, issues, campaigns, contacts, operations, receipts, day, executor>>

NoCampaign == [status |-> "none", budget |-> 0, method |-> "none", plan |-> <<>>,
               approved |-> FALSE]
Idle == [key |-> "none", index |-> 0, failure |-> "none", step |-> "idle"]

AcquisitionInit ==
  /\ prospects = {} /\ issues = {} /\ contacts = {}
  /\ campaigns = [k \in Keys |-> NoCampaign]
  /\ operations = <<>> /\ receipts = <<>>
  /\ day = 0
  /\ executor = [e \in Executors |-> Idle]

-------------------------------------------------------------------------------
(* ingest() and candidates() *)

\* A repeated id with another payload is a conflict; the original is kept.
Ingest(r) ==
  /\ IF \E old \in prospects : old.id = r.id
     THEN /\ issues' = IF r \in prospects THEN issues ELSE issues \cup {r.id}
          /\ UNCHANGED prospects
     ELSE prospects' = prospects \cup {r} /\ UNCHANGED issues
  /\ UNCHANGED <<campaigns, contacts, operations, receipts, day, executor>>

Ambiguous(r) ==
  \/ r.id \in issues
  \/ \E other \in prospects \ {r} : other.contact = r.contact

\* "faulty" fails record_errors(); "unwilling" is without consent or suppressed.
Blockers == {r \in prospects : r.fit = "faulty" \/ Ambiguous(r)}
Reserved(contact) == \E k \in Keys : <<contact, k>> \in contacts
Candidates ==
  {r \in prospects \ Blockers : r.fit = "fit" /\ ~Reserved(r.contact) /\ r.value > 0}

-------------------------------------------------------------------------------
(* select() *)

ById == SetToSortSeq(Candidates, LAMBDA r, s : r.id < s.id)
ByValue == SetToSortSeq(Candidates,
             LAMBDA r, s : r.value > s.value \/ (r.value = s.value /\ r.id < s.id))
Cost(plan)  == FoldLeft(LAMBDA sum, r : sum + r.cost, 0, plan)
Value(plan) == FoldLeft(LAMBDA sum, r : sum + r.value, 0, plan)

Greedy(budget) ==
  FoldLeft(LAMBDA plan, r : IF Cost(plan) + r.cost <= budget THEN Append(plan, r) ELSE plan,
           <<>>, ByValue)

\* Mutant: the first plan found at a cost is kept.
FirstOfItsCost(value, cost, frontier) == cost \notin DOMAIN frontier
Improves(value, cost, frontier) ==
  cost \in DOMAIN frontier => value > Value(frontier[cost])

\* For every cost that a plan of the records seen so far can have, the best plan of that cost.
Extend(frontier, r, budget) ==
  [c \in DOMAIN frontier \cup {d \in {b + r.cost : b \in DOMAIN frontier} : d <= budget} |->
     LET before == c - r.cost IN
     IF before \in DOMAIN frontier /\ Improves(Value(frontier[before]) + r.value, c, frontier)
     THEN Append(frontier[before], r) ELSE frontier[c]]
Exact(budget) ==
  LET frontier == FoldLeft(LAMBDA f, r : Extend(f, r, budget), (0 :> <<>>), ById)
      best == CHOOSE c \in DOMAIN frontier : \A d \in DOMAIN frontier :
                \/ Value(frontier[c]) > Value(frontier[d])
                \/ Value(frontier[c]) = Value(frontier[d]) /\ c <= d
  IN frontier[best]

Selection(budget, method) == IF method = "baseline" THEN Greedy(budget) ELSE Exact(budget)

-------------------------------------------------------------------------------
(* The owner's requests *)

\* A key that was used answers with its campaign, or is refused: nothing changes.
Propose(k, budget, method) ==
  LET plan == Selection(budget, method) IN
  /\ campaigns[k] = NoCampaign
  /\ campaigns' = [campaigns EXCEPT ![k] =
       [status |-> IF Blockers # {} \/ plan = <<>> THEN "REVIEW_REQUIRED" ELSE "PROPOSED",
        budget |-> budget, method |-> method, plan |-> plan, approved |-> FALSE]]
  /\ UNCHANGED <<prospects, issues, contacts, operations, receipts, day, executor>>

Review(k) ==
  /\ campaigns[k].status = "REVIEW_REQUIRED" /\ campaigns[k].plan # <<>>
  /\ campaigns' = [campaigns EXCEPT ![k].status = "PROPOSED"]
  /\ UNCHANGED <<prospects, issues, contacts, operations, receipts, day, executor>>

\* INSERT of the same row under each id.
Inserted(table, ids, row) ==
  [o \in ids \cup DOMAIN table |-> IF o \in ids THEN row ELSE table[o]]

\* Mutant: reservations by other campaigns are not looked at again.
ValidUnreserved(k) == \A r \in ToSet(campaigns[k].plan) : r \in prospects /\ ~Ambiguous(r)
\* validate(): the plan still stands, whatever has been ingested and approved since.
Valid(k) ==
  LET row == campaigns[k] IN
  /\ row.plan # <<>> /\ Cost(row.plan) <= row.budget
  /\ \A r \in ToSet(row.plan) :
       /\ r \in prospects /\ ~Ambiguous(r)
       /\ \A other \in Keys \ {k} : <<r.contact, other>> \notin contacts

Approve(k) ==
  LET plan == ToSet(campaigns[k].plan) IN
  /\ campaigns[k].status = "PROPOSED" /\ ~campaigns[k].approved /\ Valid(k)
  /\ campaigns' = [campaigns EXCEPT ![k].status = "APPROVED", ![k].approved = TRUE]
  /\ contacts' = contacts \cup {<<r.contact, k>> : r \in plan}
  /\ operations' = Inserted(operations, {<<k, r.id>> : r \in plan},
                            [status |-> "pending", attempts |-> 0])
  /\ UNCHANGED <<prospects, issues, receipts, day, executor>>

\* Conversions that are due are observed; completed campaigns with nothing outstanding settle.
Advance(days) ==
  LET due == {o \in DOMAIN receipts : receipts[o].due <= day + days}
      open == {o[1] : o \in {p \in DOMAIN receipts \ due : ~receipts[p].observed}} IN
  /\ day + days <= MaxDay
  /\ day' = day + days
  /\ receipts' = [o \in DOMAIN receipts |->
                    IF o \in due THEN [receipts[o] EXCEPT !.observed = TRUE] ELSE receipts[o]]
  /\ campaigns' = [k \in Keys |->
       IF campaigns[k].status = "COMPLETED" /\ k \notin open
       THEN [campaigns[k] EXCEPT !.status = "SETTLED"] ELSE campaigns[k]]
  /\ UNCHANGED <<prospects, issues, contacts, operations, executor>>

-------------------------------------------------------------------------------
(* execute() *)

\* The loop over the plan comes to its record i, or to its end.
Turn(k, i) == IF i \in DOMAIN campaigns[k].plan THEN "attempt" ELSE "finish"

Begin(e, k, failure) ==
  /\ executor[e] = Idle
  /\ campaigns[k].status \in {"APPROVED", "EXECUTING", "FAILED"} /\ campaigns[k].approved
  /\ Valid(k)
  /\ campaigns' = [campaigns EXCEPT ![k].status = "EXECUTING"]
  /\ executor' = [executor EXCEPT ![e] =
                    [key |-> k, index |-> 1, failure |-> failure, step |-> Turn(k, 1)]]
  /\ UNCHANGED <<prospects, issues, contacts, operations, receipts, day>>

Plan(e) == campaigns[executor[e].key].plan
At(e, step) == executor[e].step = step
Record(e) == Plan(e)[executor[e].index]
Operation(e) == <<executor[e].key, Record(e).id>>

GoOn(e) ==
  executor' = [executor EXCEPT ![e].index = @ + 1,
                               ![e].step = Turn(executor[e].key, executor[e].index + 1)]
Raises(e) == executor' = [executor EXCEPT ![e] = Idle]

Done(e) == operations[Operation(e)].status = "completed"
Delivered(e) == Operation(e) \in DOMAIN receipts
Tired(e) == operations[Operation(e)].attempts >= MaxAttempts

Skip(e) ==
  /\ At(e, "attempt")
  /\ Done(e) \/ (~Delivered(e) /\ Tired(e))
  /\ GoOn(e)
  /\ UNCHANGED <<prospects, issues, campaigns, contacts, operations, receipts, day>>

\* A delivery whose acknowledgement was lost.
Reconcile(e) ==
  /\ At(e, "attempt") /\ ~Done(e) /\ Delivered(e)
  /\ operations' = [operations EXCEPT ![Operation(e)].status = "completed"]
  /\ GoOn(e)
  /\ UNCHANGED <<prospects, issues, campaigns, contacts, receipts, day>>

Attempting(e) == At(e, "attempt") /\ ~Done(e) /\ ~Delivered(e) /\ ~Tired(e)

Invalid(e) ==
  /\ Attempting(e) /\ ~Valid(executor[e].key)
  /\ Raises(e)
  /\ UNCHANGED <<prospects, issues, campaigns, contacts, operations, receipts, day>>

ProviderFails(e) ==
  /\ executor[e].index = 1
  /\ \/ executor[e].failure = "always"
     \/ executor[e].failure = "once" /\ operations[Operation(e)].attempts = 0

Attempted(e, status) ==
  operations' = [operations EXCEPT ![Operation(e)] =
                   [status |-> status, attempts |-> @.attempts + 1]]

FailAttempt(e) ==
  /\ Attempting(e) /\ Valid(executor[e].key) /\ ProviderFails(e)
  /\ Attempted(e, "failed")
  /\ GoOn(e)
  /\ UNCHANGED <<prospects, issues, campaigns, contacts, receipts, day>>

Deliveries(k) == {o \in DOMAIN receipts : o[1] = k}
Spent(k) == SumFunctionOnSet([o \in DOMAIN receipts |-> receipts[o].cost], Deliveries(k))

\* The failure "after_receipt" ends the process right after the first delivery.
Deliver(e) ==
  LET r == Record(e) IN
  /\ Attempting(e) /\ Valid(executor[e].key) /\ ~ProviderFails(e)
  /\ Spent(executor[e].key) + r.cost <= campaigns[executor[e].key].budget
  /\ Attempted(e, "pending")
  /\ receipts' = Inserted(receipts, {Operation(e)},
                          [contact |-> r.contact, cost |-> r.cost,
                           due |-> day + r.delay, observed |-> FALSE])
  /\ IF executor[e].index = 1 /\ executor[e].failure = "after_receipt"
     THEN Raises(e) ELSE executor' = [executor EXCEPT ![e].step = "complete"]
  /\ UNCHANGED <<prospects, issues, campaigns, contacts, day>>

Complete(e) ==
  /\ At(e, "complete")
  /\ operations' = [operations EXCEPT ![Operation(e)].status = "completed"]
  /\ GoOn(e)
  /\ UNCHANGED <<prospects, issues, campaigns, contacts, receipts, day>>

\* Mutant: only failures are counted, not what another process is still at.
OutstandingFailed(k) ==
  \E o \in DOMAIN operations : o[1] = k /\ operations[o].status = "failed"
Outstanding(k) ==
  \E o \in DOMAIN operations : o[1] = k /\ operations[o].status # "completed"

EndExecution(e) ==
  LET k == executor[e].key IN
  /\ At(e, "finish")
  /\ campaigns' = [campaigns EXCEPT ![k].status =
                     IF Outstanding(k) THEN "FAILED" ELSE "COMPLETED"]
  /\ Raises(e)
  /\ UNCHANGED <<prospects, issues, contacts, operations, receipts, day>>

ExecutorDies(e) ==
  /\ executor[e] # Idle
  /\ Raises(e)
  /\ UNCHANGED <<prospects, issues, campaigns, contacts, operations, receipts, day>>

Execute(e) ==
  \/ \E k \in Keys, failure \in Failures : Begin(e, k, failure)
  \/ Skip(e) \/ Reconcile(e) \/ Invalid(e) \/ FailAttempt(e) \/ Deliver(e) \/ Complete(e)
  \/ EndExecution(e) \/ ExecutorDies(e)

AcquisitionNext ==
  \/ \E r \in Records : Ingest(r)
  \/ \E k \in Keys : \/ Review(k) \/ Approve(k)
                     \/ \E b \in Budgets, m \in Methods : Propose(k, b, m)
  \/ \E days \in 1..MaxDay : Advance(days)
  \/ \E e \in Executors : Execute(e)

-------------------------------------------------------------------------------
AcquisitionSpec == AcquisitionInit /\ [][AcquisitionNext]_avars

\* Nobody is contacted twice, and only a campaign that somebody approved and that reserved the
\* contact does it.
ContactsAreApproved ==
  /\ \A o, p \in DOMAIN receipts : receipts[o].contact = receipts[p].contact => o = p
  /\ \A o \in DOMAIN receipts :
       campaigns[o[1]].approved /\ <<receipts[o].contact, o[1]>> \in contacts

\* Each delivery took an attempt, of those there are.
AttemptsAreCounted ==
  \A o \in DOMAIN operations :
    operations[o].attempts \in (IF o \in DOMAIN receipts THEN 1 ELSE 0)..MaxAttempts

\* Whatever is retried, reconciled or executed twice at once: nobody is contacted twice or
\* without approval, beyond the budget or the attempts of the campaign.
ContactedOnce ==
  /\ ContactsAreApproved /\ AttemptsAreCounted
  /\ \A k \in Keys : Spent(k) <= campaigns[k].budget

\* A campaign is called completed when all of it was delivered, and settled when all of that
\* was observed, though another process may be executing it at the time.
FinishedIsDelivered ==
  \A k \in Keys : campaigns[k].status \in {"COMPLETED", "SETTLED"} =>
    \A r \in ToSet(campaigns[k].plan) :
      /\ <<k, r.id>> \in DOMAIN receipts /\ operations[<<k, r.id>>].status = "completed"
      /\ campaigns[k].status = "SETTLED" => receipts[<<k, r.id>>].observed

\* The frontier finds, for every budget, a plan no choice of the candidates would better.
PlansAreOptimal ==
  \A budget \in Budgets :
    /\ Cost(Selection(budget, "scripted-agent")) <= budget
    /\ \A choice \in SUBSET Candidates :
         Cost(SetToSeq(choice)) <= budget
           => Value(SetToSeq(choice)) <= Value(Selection(budget, "scripted-agent"))
===============================================================================
