------------------------------- MODULE MCLeases -------------------------------
(* Small instances of Leases for TLC. *)
EXTENDS LeaseProperties, TLC

CONSTANTS t1, t2, t3, c1, c2, c3, p1, p2

OneProject == [t \in Tasks |-> p1]
\* t3 lives in a project of its own.
TwoProjects == [t \in Tasks |-> IF t = t3 THEN p2 ELSE p1]

NoOverlap == {}
\* t1 and t2 share a directory.
SharedScope == {<<t1, t2>>, <<t2, t1>>}

AllAtOnce == [t \in Tasks |-> {}]
\* The owner asks for t1, and for t2 on top of it.
Chained == (t1 :> {}) @@ (t2 :> {t1})
\* t1 is a request its director plans; the other tasks exist only as plans.
Planned == (t1 :> {})

NoPlans == [t \in Tasks |-> {}]
\* One build task, or two of which the second needs the first.
Breakdowns == [t \in Tasks |-> IF t # t1 THEN {}
               ELSE {(t2 :> {}), (t2 :> {}) @@ (t3 :> {t2})}]
OneBuild == [t \in Tasks |-> IF t # t1 THEN {} ELSE {(t2 :> {})}]

\* c1 directs and builds, c2 builds and reviews.
SplitRoles == [c \in Accounts |-> IF c = c1 THEN {"plan", "build"} ELSE {"build", "review"}]
AllRoles == [c \in Accounts |-> {"plan", "build", "review"}]

AccountSymmetry == Permutations(Accounts)

===============================================================================
