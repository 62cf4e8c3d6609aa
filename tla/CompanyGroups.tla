---------------------------- MODULE CompanyGroups ----------------------------
(***************************************************************************)
(* Parent and child companies (CompanyGroupService). Each request puts one *)
(* company under a parent, or takes it out of its group, statement by      *)
(* statement: what it reads before it has a lock, the rows it locks, the   *)
(* walk up from the new parent, the database's own check, the commit.      *)
(***************************************************************************)
EXTENDS Naturals, RowLocks

CONSTANTS
    Companies, NoCompany,
    Rank,       \* the order of customer_id
    Child,      \* the company each request links
    Under       \* its parent to be, NoCompany to leave the group

ASSUME GroupAssumption ==
    /\ NoCompany \notin Companies
    /\ Rows = Companies
    /\ Rank \in [Companies -> Nat]
    /\ \A c, e \in Companies : Rank[c] = Rank[e] => c = e
    /\ Child \in [Txns -> Companies]
    /\ Under \in [Txns -> Companies \union {NoCompany}]
    /\ \A t \in Txns : Under[t] # Child[t]  \* "A company cannot be its own parent"

VARIABLES
    parent,     \* parent_company_id, as committed
    listed,     \* the members each company's group history leaves it with
    pc,
    was,        \* the parent a request takes its company to have
    at,         \* how far up its walk has come
    chain       \* the ancestors it has met

groups == <<parent, listed>>
vars == <<groups, pc, was, at, chain, held>>

Points == {"begin", "lock", "climb", "judge", "write", "refer", "history", "commit", "done"}

TypeOK ==
    /\ parent \in [Companies -> Companies \union {NoCompany}]
    /\ listed \in [Companies -> SUBSET Companies]
    /\ pc \in [Txns -> Points]
    /\ was \in [Txns -> Companies \union {NoCompany}]
    /\ at \in [Txns -> Companies \union {NoCompany}]
    /\ chain \in [Txns -> SUBSET Companies]
    /\ held \in [Txns -> SUBSET Locks]

MembersOf(p) == {c \in Companies : parent[c] = p}

\* A loop: companies none of whom has a parent outside it.
Loop(ring) == ring # {} /\ \A c \in ring : parent[c] \in ring

\* No company is its own ancestor: "linking it as the parent would make a loop",
\* in the service, and trg_exporter_profile_no_group_cycle against two links racing.
NoLoop == \A ring \in SUBSET Companies : ~Loop(ring)

\* Any groups that were linked one request at a time.
Init ==
    /\ parent \in [Companies -> Companies \union {NoCompany}]
    /\ NoLoop
    /\ listed = [p \in Companies |-> MembersOf(p)]
    /\ pc = [t \in Txns |-> "begin"]
    /\ was = [t \in Txns |-> NoCompany]
    /\ at = [t \in Txns |-> NoCompany]
    /\ chain = [t \in Txns |-> {}]
    /\ LocksInit

Goto(t, point) == pc' = [pc EXCEPT ![t] = point]
End(t) == Goto(t, "done") /\ ReleaseAll(t)

-----------------------------------------------------------------------------
\* _parent_of, before any lock.
Begin(t) ==
    /\ pc[t] = "begin"
    /\ was' = [was EXCEPT ![t] = parent[Child[t]]]
    /\ Goto(t, "lock")
    /\ UNCHANGED <<groups, at, chain, held>>

\* Mutant: a request locks no more than the company it writes.
OnlyTheChild(t) == {Child[t]}

Wanted(t) == {Child[t], Under[t], was[t]} \ {NoCompany}
Unlocked(t) == {c \in Wanted(t) : <<c, "UPDATE">> \notin held[t]}

\* _lock: one SELECT that takes the rows FOR UPDATE in the order of customer_id.
Lock(t) ==
    /\ pc[t] = "lock"
    /\ \E c \in Unlocked(t) :
          /\ \A e \in Unlocked(t) : Rank[c] <= Rank[e]
          /\ Acquire(t, <<c, "UPDATE">>)
    /\ UNCHANGED <<groups, pc, was, at, chain>>

\* Mutant: without populate_existing the row keeps what was read before the lock.
AsFirstRead(t) == was[t]

\* The company's parent on the row that was locked.
AsLocked(t) == parent[Child[t]]

Locked(t) ==
    /\ pc[t] = "lock"
    /\ Unlocked(t) = {}
    /\ was' = [was EXCEPT ![t] = AsLocked(t)]
    /\ at' = [at EXCEPT ![t] = Under[t]]
    /\ Goto(t, IF Under[t] = NoCompany THEN "judge" ELSE "climb")
    /\ UNCHANGED <<groups, chain, held>>

\* _ancestors: a statement for each step up, until there is no parent or the
\* walk meets one again.
Climb(t) ==
    /\ pc[t] = "climb"
    /\ LET up == parent[at[t]] IN
          IF up \in Companies \ chain[t]
          THEN /\ at' = [at EXCEPT ![t] = up]
               /\ chain' = [chain EXCEPT ![t] = @ \union {up}]
               /\ UNCHANGED pc
          ELSE Goto(t, "judge") /\ UNCHANGED <<at, chain>>
    /\ UNCHANGED <<groups, was, held>>

\* A loop is refused, and what is already so is returned as it is.
Return(t) ==
    /\ pc[t] = "judge"
    /\ Child[t] \in chain[t] \/ was[t] = Under[t]
    /\ End(t)
    /\ UNCHANGED <<groups, was, at, chain>>

\* Under the same parent another relationship may be asked for.
Accept(t) ==
    /\ pc[t] = "judge"
    /\ Child[t] \notin chain[t]
    /\ was[t] = NoCompany => Under[t] # NoCompany
    /\ Goto(t, "write")
    /\ UNCHANGED <<groups, was, at, chain, held>>

\* A company and all that stand over it, in one snapshot.
Above(c) ==
    {x \in Companies :
        \A closed \in SUBSET Companies :
            c \in closed /\ (\A e \in closed : parent[e] \in closed \union {NoCompany})
            => x \in closed}

\* prevent_company_group_cycle.
TriggerRefuses(t) == Under[t] # NoCompany /\ Child[t] \in Above(Under[t])

\* The UPDATE, which the trigger may refuse.
Write(t) ==
    /\ pc[t] = "write"
    /\ IF TriggerRefuses(t) THEN End(t) ELSE Goto(t, "refer") /\ UNCHANGED held
    /\ UNCHANGED <<groups, was, at, chain>>

\* A row that refers to another holds it until the commit: the new parent by
\* the foreign key, and the old one by its row of history.
Refer(t, point, company, next) ==
    /\ pc[t] = point
    /\ Goto(t, next)
    /\ IF company = NoCompany THEN UNCHANGED held ELSE Acquire(t, <<company, "KEY SHARE">>)
    /\ UNCHANGED <<groups, was, at, chain>>

\* group_member_removed on the old parent, group_member_added on the new one.
Told(p, t) ==
    (IF p = was[t] THEN listed[p] \ {Child[t]} ELSE listed[p])
        \union (IF p = Under[t] THEN {Child[t]} ELSE {})

Commit(t) ==
    /\ pc[t] = "commit"
    /\ parent' = [parent EXCEPT ![Child[t]] = Under[t]]
    /\ listed' = [p \in Companies |-> Told(p, t)]
    /\ End(t)
    /\ UNCHANGED <<was, at, chain>>

\* The process dies, or the database ends a deadlock by it.
RollBack(t) ==
    /\ pc[t] \notin {"begin", "done"}
    /\ End(t)
    /\ UNCHANGED <<groups, was, at, chain>>

Step(t) ==
    \/ Begin(t)
    \/ Lock(t)
    \/ Locked(t)
    \/ Climb(t)
    \/ Return(t)
    \/ Accept(t)
    \/ Write(t)
    \/ Refer(t, "refer", Under[t], "history")
    \/ Refer(t, "history", was[t], "commit")
    \/ Commit(t)
    \/ RollBack(t)

Next == \E t \in Txns : Step(t)

Spec == Init /\ [][Next]_vars

-----------------------------------------------------------------------------
\* Links that race never close a loop of two or three companies: any two links
\* of such a loop share a company, and the second to lock it sees the first.
NoShortLoop ==
    \A a, b, c \in Companies :
        parent[a] = b /\ parent[b] = c => a \notin {b, c} /\ parent[c] # a

\* "Every link and unlink writes a group history row on both companies": read in
\* the order of the commits, a company's rows name the members it has, though
\* its members' parents are read before anything is locked.
HistoryTellsTheGroup == \A p \in Companies : listed[p] = MembersOf(p)
=============================================================================
