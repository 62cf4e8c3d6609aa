------------------------- MODULE CompanyGroups_proofs -------------------------
(***************************************************************************)
(* Why links that race close no loop of two or three companies, and why    *)
(* the history tells who is in a group: a request past its locks still     *)
(* holds the company and the parent, so what it read of either stands.     *)
(***************************************************************************)
EXTENDS CompanyGroups, RowLocks_proofs

Accepted == {"write", "refer", "history", "commit"}
Working == Accepted \union {"climb", "judge"}

\* The company and its new parent are this request's to write.
HoldsBoth(t) ==
    /\ <<Child[t], "UPDATE">> \in held[t]
    /\ was[t] = parent[Child[t]]
    /\ Under[t] # NoCompany => <<Under[t], "UPDATE">> \in held[t]

\* The new parent's own parent, and what the walk knows of the next one up.
Over(t) == parent[Under[t]]
SeenAbove(t) == parent[Over(t)] = Child[t] => Child[t] \in chain[t]

Walking(t) ==
    /\ Under[t] # NoCompany
    /\ at[t] \in Companies
    /\ \/ at[t] = Under[t] /\ chain[t] = {}
       \/ Over(t) \in chain[t] /\ (at[t] = Over(t) \/ SeenAbove(t))

Walked(t) ==
    Under[t] # NoCompany /\ Over(t) # NoCompany => Over(t) \in chain[t] /\ SeenAbove(t)

RequestOK(t) ==
    /\ pc[t] \in {"begin", "lock"} => chain[t] = {}
    /\ pc[t] \in Working => HoldsBoth(t)
    /\ pc[t] = "climb" => Walking(t)
    /\ pc[t] \in Accepted \union {"judge"} => Walked(t)
    /\ pc[t] \in Accepted => Child[t] \notin chain[t]

RequestInv == \A t \in Txns : RequestOK(t)

GroupInv ==
    /\ TypeOK
    /\ LocksExclude
    /\ NoShortLoop
    /\ HistoryTellsTheGroup
    /\ RequestInv

-----------------------------------------------------------------------------
(* No request has begun, and no group has a loop.                          *)
LEMMA InitGroupInv ==
    ASSUME GroupAssumption, Init
    PROVE  GroupInv
<1>1. TypeOK
    BY DEF GroupAssumption, Init, LocksInit, TypeOK, MembersOf, Points
<1>2. LocksExclude
    BY DEF Init, LocksInit, LocksExclude
<1>3. NoShortLoop
    <2> SUFFICES ASSUME NEW a \in Companies, NEW b \in Companies, NEW c \in Companies,
                        parent[a] = b, parent[b] = c
                 PROVE  a \notin {b, c} /\ parent[c] # a
        BY DEF NoShortLoop
    <2>1. ~Loop({a}) /\ ~Loop({a, b}) /\ ~Loop({a, b, c})
        BY DEF Init, NoLoop
    <2> QED BY <2>1 DEF Loop
<1>4. HistoryTellsTheGroup
    BY DEF Init, HistoryTellsTheGroup
<1>5. RequestInv
    BY DEF Init, RequestInv, RequestOK, Working, Accepted
<1> QED BY <1>1, <1>2, <1>3, <1>4, <1>5 DEF GroupInv

-----------------------------------------------------------------------------
(* Two requests past their locks share no company they hold.               *)
LEMMA HoldersAreApart ==
    ASSUME GroupAssumption, GroupInv, NEW t \in Txns, NEW u \in Txns, t # u,
           pc[t] \in Working, pc[u] \in Working
    PROVE  {Child[t], Under[t]} \intersect {Child[u], Under[u]} \subseteq {NoCompany}
<1>1. HoldsBoth(t) /\ HoldsBoth(u)
    BY DEF GroupInv, RequestInv, RequestOK
<1>2. \A c \in Companies : ~(<<c, "UPDATE">> \in held[t] /\ <<c, "UPDATE">> \in held[u])
    BY DEF GroupAssumption, GroupInv, LocksExclude, Conflict, Modes
<1>3. Child[t] \in Companies /\ Child[u] \in Companies
      /\ Under[t] \in Companies \union {NoCompany} /\ Under[u] \in Companies \union {NoCompany}
    BY DEF GroupAssumption
<1> QED BY <1>1, <1>2, <1>3 DEF HoldsBoth

(* A step keeps the types.                                                 *)
LEMMA StepTypes ==
    ASSUME GroupAssumption, GroupInv, NEW t \in Txns, Step(t)
    PROVE  TypeOK' /\ LocksExclude'
<1>0. TypeOK /\ LocksExclude
    BY DEF GroupInv
<1>1. held' \in [Txns -> SUBSET Locks] /\ LocksExclude'
    <2>1. CASE \E lock \in Locks : Acquire(t, lock)
        BY <1>0, <2>1, AcquireExcludes DEF TypeOK
    <2>2. CASE ReleaseAll(t)
        BY <1>0, <2>2, ReleaseExcludes DEF TypeOK
    <2>3. CASE UNCHANGED held
        BY <1>0, <2>3 DEF TypeOK, LocksExclude
    <2>4. \A c \in Companies, m \in Modes : <<c, m>> \in Locks
        BY DEF Locks, GroupAssumption
    <2>5. CASE Lock(t)
        <3>1. PICK c \in Unlocked(t) : Acquire(t, <<c, "UPDATE">>)
            BY <2>5 DEF Lock
        <3>2. c \in Companies
            BY <1>0, <3>1 DEF Unlocked, Wanted, TypeOK, GroupAssumption
        <3> QED BY <2>1, <2>4, <3>1, <3>2 DEF Modes
    <2>6. ASSUME NEW company \in Companies \union {NoCompany},
                 NEW point, NEW next, Refer(t, point, company, next)
          PROVE  (\E lock \in Locks : Acquire(t, lock)) \/ UNCHANGED held
        <3>1. CASE company = NoCompany BY <2>6, <3>1 DEF Refer
        <3>2. CASE company # NoCompany
            <4>1. Acquire(t, <<company, "KEY SHARE">>) BY <2>6, <3>2 DEF Refer
            <4> QED BY <2>4, <3>2, <4>1 DEF Modes
        <3> QED BY <3>1, <3>2
    <2>7. CASE Refer(t, "refer", Under[t], "history")
        BY <2>1, <2>3, <2>6, <2>7 DEF GroupAssumption
    <2>8. CASE Refer(t, "history", was[t], "commit")
        <3>1. was[t] \in Companies \union {NoCompany} BY <1>0 DEF TypeOK
        <3> QED BY <2>1, <2>3, <2>6, <2>8, <3>1
    <2>9. CASE Begin(t) \/ Locked(t) \/ Climb(t) \/ Accept(t)
        BY <2>3, <2>9 DEF Begin, Locked, Climb, Accept
    <2>10. CASE Return(t) \/ Write(t) \/ Commit(t) \/ RollBack(t)
        BY <2>2, <2>3, <2>10 DEF Return, Write, Commit, RollBack, End
    <2> QED BY <2>5, <2>7, <2>8, <2>9, <2>10 DEF Step
<1>2. pc' \in [Txns -> Points]
    BY <1>0 DEF Step, Begin, Lock, Locked, Climb, Return, Accept, Write, Refer, Commit, RollBack,
        End, Goto, TypeOK, Points
<1>3. parent' \in [Companies -> Companies \union {NoCompany}]
      /\ listed' \in [Companies -> SUBSET Companies]
    <2>1. CASE Commit(t)
        BY <1>0, <2>1 DEF Commit, Told, TypeOK, GroupAssumption
    <2>2. CASE UNCHANGED groups
        BY <1>0, <2>2 DEF groups, TypeOK
    <2> QED BY <2>1, <2>2 DEF Step, Begin, Lock, Locked, Climb, Return, Accept, Write, Refer, RollBack
<1>4. was' \in [Txns -> Companies \union {NoCompany}]
    <2>1. parent[Child[t]] \in Companies \union {NoCompany}
        BY <1>0 DEF TypeOK, GroupAssumption
    <2> QED BY <1>0, <2>1 DEF Step, Begin, Lock, Locked, AsLocked, Climb, Return, Accept, Write,
                Refer, Commit, RollBack, TypeOK
<1>5. at' \in [Txns -> Companies \union {NoCompany}] /\ chain' \in [Txns -> SUBSET Companies]
    <2>1. CASE Climb(t)
        <3>1. CASE parent[at[t]] \in Companies \ chain[t]
            BY <1>0, <2>1, <3>1 DEF Climb, TypeOK
        <3>2. CASE parent[at[t]] \notin Companies \ chain[t]
            BY <1>0, <2>1, <3>2 DEF Climb, TypeOK
        <3> QED BY <3>1, <3>2
    <2>2. CASE Locked(t)
        BY <1>0, <2>2 DEF Locked, TypeOK, GroupAssumption
    <2>3. CASE UNCHANGED <<at, chain>>
        BY <1>0, <2>3 DEF TypeOK
    <2> QED BY <2>1, <2>2, <2>3 DEF Step, Begin, Lock, Return, Accept, Write, Refer, Commit, RollBack
<1> QED BY <1>1, <1>2, <1>3, <1>4, <1>5 DEF TypeOK

-----------------------------------------------------------------------------
(* A commit changes one company's parent, which no one else holds, and     *)
(* puts no one under a company that someone else holds.                    *)
LEMMA OthersStand ==
    ASSUME GroupAssumption, GroupInv, NEW t \in Txns, Commit(t),
           NEW u \in Txns, u # t, pc[u] \in Working
    PROVE  /\ parent'[Child[u]] = parent[Child[u]]
           /\ Under[u] # NoCompany => parent'[Under[u]] = parent[Under[u]]
           /\ \A c \in Companies : parent'[c] = Child[u] => parent[c] = Child[u]
<1>1. pc[t] \in Working /\ parent' = [parent EXCEPT ![Child[t]] = Under[t]]
    BY DEF Commit, Working, Accepted
<1>2. {Child[t], Under[t]} \intersect {Child[u], Under[u]} \subseteq {NoCompany}
    BY <1>1, HoldersAreApart
<1>3. Child[t] \in Companies /\ Child[u] \in Companies /\ NoCompany \notin Companies
      /\ Under[u] \in Companies \union {NoCompany}
      /\ parent \in [Companies -> Companies \union {NoCompany}]
    BY DEF GroupAssumption, GroupInv, TypeOK
<1>4. Child[t] # Child[u] /\ Child[t] # Under[u] /\ Under[t] # Child[u]
    BY <1>2, <1>3
<1> QED BY <1>1, <1>3, <1>4

(* What another request has read stays true over a step of this one.       *)
LEMMA OthersKeep ==
    ASSUME GroupAssumption, GroupInv, NEW t \in Txns, Step(t), NEW u \in Txns, u # t
    PROVE  RequestOK(u)'
<1>0. TypeOK /\ RequestOK(u)
    BY DEF GroupInv, RequestInv
<1>1. pc'[u] = pc[u] /\ was'[u] = was[u] /\ at'[u] = at[u] /\ chain'[u] = chain[u]
    BY <1>0 DEF Step, Begin, Lock, Locked, Climb, Return, Accept, Write, Refer, Commit, RollBack,
        End, Goto, TypeOK
<1>2. held'[u] = held[u]
    BY <1>0 DEF Step, Begin, Lock, Locked, Climb, Return, Accept, Write, Refer, Commit, RollBack,
        End, ReleaseAll, Acquire, TypeOK
<1>3. CASE UNCHANGED parent
    BY <1>0, <1>1, <1>2, <1>3 DEF RequestOK, HoldsBoth, Walking, Walked, SeenAbove, Over
<1>4. CASE Commit(t)
    <2>1. CASE pc[u] \notin Working
        BY <1>0, <1>1, <2>1 DEF RequestOK, Working, Accepted
    <2>2. CASE pc[u] \in Working
        <3>1. /\ parent'[Child[u]] = parent[Child[u]]
              /\ Under[u] # NoCompany => parent'[Under[u]] = parent[Under[u]]
              /\ \A c \in Companies : parent'[c] = Child[u] => parent[c] = Child[u]
            BY <1>4, <2>2, OthersStand
        <3>2. HoldsBoth(u)'
            BY <1>0, <1>1, <1>2, <2>2, <3>1 DEF RequestOK, HoldsBoth
        <3>3. Under[u] # NoCompany => Over(u)' = Over(u)
            BY <3>1 DEF Over
        <3>4. Over(u) \in Companies /\ Under[u] # NoCompany /\ SeenAbove(u) => SeenAbove(u)'
            BY <1>1, <3>1, <3>3 DEF SeenAbove
        <3>5. Under[u] # NoCompany => Over(u) \in Companies \union {NoCompany}
            BY <1>0 DEF Over, TypeOK, GroupAssumption
        <3>6. Walking(u) => Walking(u)'
            <4>1. chain[u] \subseteq Companies BY <1>0 DEF TypeOK
            <4> QED BY <1>1, <3>3, <3>4, <4>1 DEF Walking
        <3>7. Walked(u) => Walked(u)'
            BY <1>1, <3>3, <3>4, <3>5 DEF Walked
        <3> QED BY <1>0, <1>1, <3>2, <3>6, <3>7, <2>2 DEF RequestOK, Working, Accepted
    <2> QED BY <2>1, <2>2
<1> QED BY <1>3, <1>4 DEF Step, Begin, Lock, Locked, Climb, Return, Accept, Write, Refer, RollBack,
        groups

(* A request that has its locks holds what it writes and what it goes by.  *)
LEMMA LockedHolds ==
    ASSUME GroupAssumption, GroupInv, NEW t \in Txns, Locked(t)
    PROVE  RequestOK(t)'
<1>0. TypeOK /\ RequestOK(t) /\ pc[t] = "lock"
    BY DEF GroupInv, RequestInv, Locked
<1>1. /\ Child[t] \in Companies
      /\ Under[t] \in Companies \union {NoCompany}
      /\ NoCompany \notin Companies
    BY DEF GroupAssumption
<1>2. HoldsBoth(t)'
    BY <1>0, <1>1 DEF Locked, AsLocked, Unlocked, Wanted, HoldsBoth, TypeOK, groups
<1>3. chain'[t] = {}
    BY <1>0 DEF Locked, RequestOK
<1>4. CASE Under[t] = NoCompany
    BY <1>0, <1>2, <1>3, <1>4 DEF Locked, Goto, TypeOK, RequestOK, Working, Accepted, Walked
<1>5. CASE Under[t] # NoCompany
    <2>1. pc'[t] = "climb" /\ at'[t] = Under[t]
        BY <1>0, <1>5 DEF Locked, Goto, TypeOK
    <2>2. Walking(t)'
        BY <1>1, <1>3, <1>5, <2>1 DEF Walking
    <2> QED BY <1>2, <2>1, <2>2 DEF RequestOK, Accepted
<1> QED BY <1>4, <1>5

(* The walk meets the parent's parent first, and then the next one up.     *)
LEMMA ClimbSees ==
    ASSUME GroupAssumption, GroupInv, NEW t \in Txns, Climb(t)
    PROVE  RequestOK(t)'
<1>0. TypeOK /\ RequestOK(t) /\ pc[t] = "climb"
    BY DEF GroupInv, RequestInv, Climb
<1>1. Walking(t) /\ HoldsBoth(t)
    BY <1>0 DEF RequestOK, Working
<1>2. HoldsBoth(t)'
    BY <1>1 DEF Climb, HoldsBoth, groups
<1>3. /\ Child[t] \in Companies /\ Under[t] \in Companies /\ NoCompany \notin Companies
      /\ chain[t] \subseteq Companies /\ at[t] \in Companies
      /\ parent[at[t]] \in Companies \union {NoCompany}
    BY <1>0, <1>1 DEF GroupAssumption, TypeOK, Walking
<1>4. Over(t)' = Over(t) /\ parent' = parent
    BY DEF Climb, groups, Over
<1>5. CASE parent[at[t]] \in Companies \ chain[t]
    <2>1. /\ at'[t] = parent[at[t]]
          /\ chain'[t] = chain[t] \union {parent[at[t]]}
          /\ pc'[t] = "climb"
        BY <1>0, <1>5 DEF Climb, TypeOK
    <2>2. Walking(t)'
        <3>1. CASE at[t] = Under[t] /\ chain[t] = {}
            BY <1>3, <1>4, <1>5, <2>1, <3>1 DEF Walking, Over
        <3>2. CASE Over(t) \in chain[t] /\ at[t] = Over(t)
            BY <1>1, <1>3, <1>4, <1>5, <2>1, <3>2 DEF Walking, SeenAbove
        <3>3. CASE Over(t) \in chain[t] /\ SeenAbove(t)
            BY <1>1, <1>3, <1>4, <1>5, <2>1, <3>3 DEF Walking, SeenAbove
        <3> QED BY <1>1, <3>1, <3>2, <3>3 DEF Walking
    <2> QED BY <1>2, <2>1, <2>2 DEF RequestOK, Accepted
<1>6. CASE parent[at[t]] \notin Companies \ chain[t]
    <2>1. pc'[t] = "judge" /\ chain'[t] = chain[t]
        BY <1>0, <1>6 DEF Climb, Goto, TypeOK
    <2>2. Walked(t)'
        <3>1. CASE at[t] = Under[t] /\ chain[t] = {}
            BY <1>3, <1>4, <1>6, <3>1 DEF Walked, Over
        <3>2. CASE Over(t) \in chain[t] /\ at[t] = Over(t)
            BY <1>3, <1>4, <1>6, <2>1, <3>2 DEF Walked, SeenAbove
        <3>3. CASE Over(t) \in chain[t] /\ SeenAbove(t)
            BY <1>4, <2>1, <3>3 DEF Walked, SeenAbove
        <3> QED BY <1>1, <3>1, <3>2, <3>3 DEF Walking
    <2> QED BY <1>2, <2>1, <2>2 DEF RequestOK, Accepted
<1> QED BY <1>5, <1>6

LEMMA OwnKeeps ==
    ASSUME GroupAssumption, GroupInv, NEW t \in Txns, Step(t)
    PROVE  RequestOK(t)'
<1>0. TypeOK /\ RequestOK(t)
    BY DEF GroupInv, RequestInv
<1>1. CASE Begin(t)
    BY <1>0, <1>1 DEF Begin, Goto, TypeOK, RequestOK, Working, Accepted
<1>2. CASE Lock(t)
    BY <1>0, <1>2 DEF Lock, RequestOK, Working, Accepted
<1>3. CASE Accept(t)
    <2>1. pc'[t] = "write" /\ pc[t] = "judge" /\ Child[t] \notin chain[t]
        BY <1>0, <1>3 DEF Accept, Goto, TypeOK
    <2>2. HoldsBoth(t) /\ Walked(t)
        BY <1>0, <2>1 DEF RequestOK, Working
    <2>3. (HoldsBoth(t) /\ Walked(t))'
        BY <1>3, <2>2 DEF Accept, groups, HoldsBoth, Walked, SeenAbove, Over
    <2> QED BY <1>3, <2>1, <2>3 DEF Accept, RequestOK, Accepted
<1>4. CASE pc'[t] = "done"
    BY <1>4 DEF RequestOK, Working, Accepted
<1>5. CASE pc[t] \in Accepted /\ pc'[t] \in Accepted /\ UNCHANGED <<groups, was, at, chain>>
              /\ held[t] \subseteq held'[t]
    BY <1>0, <1>5 DEF RequestOK, Working, Accepted, HoldsBoth, Walked, SeenAbove, Over, groups
<1>6. CASE Write(t)
    BY <1>0, <1>4, <1>5, <1>6 DEF Write, End, Goto, TypeOK, Accepted
<1>7. ASSUME NEW company, NEW point \in Accepted, NEW next \in Accepted,
             Refer(t, point, company, next)
      PROVE  RequestOK(t)'
    <2>1. pc[t] \in Accepted /\ pc'[t] \in Accepted
        BY <1>0, <1>7 DEF Refer, Goto, TypeOK
    <2>2. held[t] \subseteq held'[t]
        <3>1. CASE company = NoCompany
            BY <1>7, <3>1 DEF Refer
        <3>2. CASE company # NoCompany
            <4>1. Acquire(t, <<company, "KEY SHARE">>)
                BY <1>7, <3>2 DEF Refer
            <4>2. held'[t] = held[t] \union {<<company, "KEY SHARE">>}
                BY <1>0, <4>1 DEF Acquire, TypeOK
            <4> QED BY <4>2
        <3> QED BY <3>1, <3>2
    <2> QED BY <1>5, <1>7, <2>1, <2>2 DEF Refer
<1>8. CASE Return(t) \/ Commit(t) \/ RollBack(t)
    BY <1>0, <1>4, <1>8 DEF Return, Commit, RollBack, End, Goto, TypeOK
<1> QED BY <1>1, <1>2, <1>3, <1>6, <1>7, <1>8, LockedHolds, ClimbSees DEF Step, Accepted

-----------------------------------------------------------------------------
(* The link that is committed does not close a loop of two or three.       *)
LEMMA CommitClosesNoLoop ==
    ASSUME GroupAssumption, GroupInv, NEW t \in Txns, Commit(t)
    PROVE  NoShortLoop'
<1>0. TypeOK /\ NoShortLoop /\ pc[t] = "commit" /\ RequestOK(t)
    BY DEF GroupInv, RequestInv, Commit
<1>1. Walked(t) /\ Child[t] \notin chain[t]
    BY <1>0 DEF RequestOK, Accepted
<1>2. /\ Child[t] \in Companies
      /\ Under[t] \in Companies \union {NoCompany}
      /\ Under[t] # Child[t]
      /\ NoCompany \notin Companies
    BY DEF GroupAssumption
<1>3. \A c \in Companies : parent'[c] = IF c = Child[t] THEN Under[t] ELSE parent[c]
    BY <1>0 DEF Commit, TypeOK
<1> SUFFICES ASSUME NEW a \in Companies, NEW b \in Companies, NEW c \in Companies,
                    parent'[a] = b, parent'[b] = c
             PROVE  a \notin {b, c} /\ parent'[c] # a
    BY DEF NoShortLoop
<1>4. CASE Under[t] = NoCompany
    BY <1>0, <1>2, <1>3, <1>4 DEF NoShortLoop
<1>5. CASE Under[t] # NoCompany
    <2>1. Over(t) # Child[t]
        BY <1>1, <1>2, <1>5 DEF Walked
    <2>2. Over(t) \in Companies => parent[Over(t)] # Child[t]
        BY <1>1, <1>2, <1>5 DEF Walked, SeenAbove
    <2>3. CASE a = Child[t]
        BY <1>2, <1>3, <1>5, <2>1, <2>2, <2>3 DEF Over
    <2>4. CASE b = Child[t] /\ a # Child[t]
        BY <1>2, <1>3, <1>5, <2>1, <2>2, <2>4 DEF Over
    <2>5. CASE c = Child[t] /\ a # Child[t] /\ b # Child[t]
        <3>1. parent[a] = b /\ parent[b] = c
            BY <1>3, <2>5
        <3>2. a \notin {b, c}
            BY <1>0, <3>1 DEF NoShortLoop
        <3>3. parent'[c] # a
            BY <1>3, <2>2, <2>5, <3>1 DEF Over
        <3> QED BY <3>2, <3>3
    <2>6. CASE Child[t] \notin {a, b, c}
        BY <1>0, <1>3, <2>6 DEF NoShortLoop
    <2> QED BY <2>3, <2>4, <2>5, <2>6
<1> QED BY <1>4, <1>5

(* Both companies are told of it, and so is the one that was left.         *)
LEMMA CommitTells ==
    ASSUME GroupAssumption, GroupInv, NEW t \in Txns, Commit(t)
    PROVE  HistoryTellsTheGroup'
<1>0. TypeOK /\ HistoryTellsTheGroup /\ pc[t] = "commit" /\ RequestOK(t)
    BY DEF GroupInv, RequestInv, Commit
<1>1. was[t] = parent[Child[t]]
    BY <1>0 DEF RequestOK, Working, Accepted, HoldsBoth
<1>2. Child[t] \in Companies
    BY DEF GroupAssumption
<1>3. \A c \in Companies : parent'[c] = IF c = Child[t] THEN Under[t] ELSE parent[c]
    BY <1>0 DEF Commit, TypeOK
<1> SUFFICES ASSUME NEW p \in Companies
             PROVE  listed'[p] = {c \in Companies : parent'[c] = p}
    BY DEF HistoryTellsTheGroup, MembersOf
<1>4. listed[p] = {c \in Companies : parent[c] = p}
    BY <1>0 DEF HistoryTellsTheGroup, MembersOf
<1>5. listed'[p] = (IF p = was[t] THEN listed[p] \ {Child[t]} ELSE listed[p])
                      \union (IF p = Under[t] THEN {Child[t]} ELSE {})
    BY DEF Commit, Told
<1>6. \A c \in Companies : c \in listed'[p] <=> parent'[c] = p
    <2> SUFFICES ASSUME NEW c \in Companies
                 PROVE  c \in listed'[p] <=> parent'[c] = p
        OBVIOUS
    <2>1. c \in listed[p] <=> parent[c] = p
        BY <1>4
    <2>2. CASE c = Child[t]
        BY <1>1, <1>3, <1>5, <2>1, <2>2
    <2>3. CASE c # Child[t]
        BY <1>3, <1>5, <2>1, <2>3
    <2> QED BY <2>2, <2>3
<1>7. listed'[p] \subseteq Companies
    BY <1>2, <1>4, <1>5
<1> QED BY <1>6, <1>7

LEMMA StepKeepsGroupInv ==
    ASSUME GroupAssumption, GroupInv, [Next]_vars
    PROVE  GroupInv'
<1>1. CASE UNCHANGED vars
    <2>1. TypeOK' /\ LocksExclude'
        BY <1>1 DEF vars, groups, GroupInv, TypeOK, LocksExclude
    <2>2. NoShortLoop' /\ HistoryTellsTheGroup'
        BY <1>1 DEF vars, groups, GroupInv, NoShortLoop, HistoryTellsTheGroup, MembersOf
    <2>3. RequestInv'
        <3> SUFFICES ASSUME NEW t \in Txns PROVE RequestOK(t)'
            BY DEF RequestInv
        <3>1. RequestOK(t)
            BY DEF GroupInv, RequestInv
        <3>2. UNCHANGED <<parent, pc, was, at, chain, held>>
            BY <1>1 DEF vars, groups
        <3> QED BY <3>1, <3>2 DEF RequestOK, HoldsBoth, Walking, Walked, SeenAbove, Over
    <2> QED BY <2>1, <2>2, <2>3 DEF GroupInv
<1>2. ASSUME NEW t \in Txns, Step(t)
      PROVE  GroupInv'
    <2>1. TypeOK' /\ LocksExclude'
        BY <1>2, StepTypes
    <2>2. RequestInv'
        BY <1>2, OwnKeeps, OthersKeep DEF RequestInv
    <2>3. CASE Commit(t)
        BY <2>1, <2>2, <2>3, CommitClosesNoLoop, CommitTells DEF GroupInv
    <2>4. CASE UNCHANGED groups
        BY <2>1, <2>2, <2>4 DEF groups, GroupInv, NoShortLoop, HistoryTellsTheGroup, MembersOf
    <2> QED BY <1>2, <2>3, <2>4 DEF Step, Begin, Lock, Locked, Climb, Return, Accept, Write, Refer,
            RollBack
<1> QED BY <1>1, <1>2 DEF Next

(* Between any two steps of any requests, GroupInv holds.                  *)
THEOREM GroupInvariant == Spec => []GroupInv
<1>1. Init => GroupInv
    BY GroupAssumption, InitGroupInv
<1>2. GroupInv /\ [Next]_vars => GroupInv'
    BY GroupAssumption, StepKeepsGroupInv
<1> QED BY <1>1, <1>2, PTL DEF Spec

(* The variables keep their types.                                         *)
THEOREM GroupTypes == Spec => []TypeOK
<1>1. GroupInv => TypeOK
    BY DEF GroupInv
<1> QED BY <1>1, GroupInvariant, PTL

(* However many links race, no two or three companies end up over each     *)
(* other.                                                                  *)
THEOREM NoShortLoopHolds == Spec => []NoShortLoop
<1>1. GroupInv => NoShortLoop
    BY DEF GroupInv
<1> QED BY <1>1, GroupInvariant, PTL

(* A company's group history names the members it has.                     *)
THEOREM HistoryTellsTheGroupHolds == Spec => []HistoryTellsTheGroup
<1>1. GroupInv => HistoryTellsTheGroup
    BY DEF GroupInv
<1> QED BY <1>1, GroupInvariant, PTL

-----------------------------------------------------------------------------
(* How a longer loop can come about at all.                                *)
Updating == {"refer", "history", "commit"}

\* No two links are between the database's check and their commit.
OneUpdate == \A t, u \in Txns : pc[t] \in Updating /\ pc[u] \in Updating => t = u

\* What the database checked for an update still stands.
AloneInv == NoLoop /\ \A t \in Txns : pc[t] \in Updating => ~TriggerRefuses(t)

(* A link that the database would not refuse closes no loop of any length. *)
LEMMA CheckedClosesNoLoop ==
    ASSUME GroupAssumption, TypeOK, NoLoop, NEW t \in Txns, Commit(t), ~TriggerRefuses(t)
    PROVE  NoLoop'
<1>1. /\ \A c \in Companies : parent'[c] = IF c = Child[t] THEN Under[t] ELSE parent[c]
      /\ Child[t] \in Companies /\ NoCompany \notin Companies
    BY DEF Commit, TypeOK, GroupAssumption
<1> SUFFICES ASSUME NEW ring \in SUBSET Companies, Loop(ring)'
             PROVE  FALSE
    BY DEF NoLoop
<1>2. ring # {} /\ \A c \in ring : parent'[c] \in ring
    BY DEF Loop
<1>3. CASE Child[t] \notin ring
    <2>1. Loop(ring)
        BY <1>1, <1>2, <1>3 DEF Loop
    <2> QED BY <2>1 DEF NoLoop
<1>4. CASE Child[t] \in ring
    <2>1. Under[t] \in ring /\ Under[t] \in Companies /\ Under[t] # NoCompany
        BY <1>1, <1>2, <1>4
    <2>2. PICK closed \in SUBSET Companies :
             /\ Under[t] \in closed
             /\ \A e \in closed : parent[e] \in closed \union {NoCompany}
             /\ Child[t] \notin closed
        BY <1>1, <2>1 DEF TriggerRefuses, Above
    <2> DEFINE before == ring \intersect closed
    <2>3. Loop(before)
        BY <1>1, <1>2, <2>1, <2>2 DEF Loop
    <2> QED BY <2>3 DEF NoLoop
<1> QED BY <1>3, <1>4

(* One update at a time keeps what the database checked.                   *)
LEMMA OneUpdateKeepsAloneInv ==
    ASSUME GroupAssumption, GroupInv, OneUpdate, AloneInv, [Next]_vars
    PROVE  AloneInv'
<1>0. TypeOK
    BY DEF GroupInv
<1>1. UNCHANGED parent =>
        (NoLoop' <=> NoLoop) /\ \A t \in Txns : TriggerRefuses(t)' <=> TriggerRefuses(t)
    BY DEF NoLoop, Loop, TriggerRefuses, Above
<1>2. CASE UNCHANGED vars
    BY <1>1, <1>2 DEF vars, groups, AloneInv
<1>3. ASSUME NEW t \in Txns, Commit(t) PROVE AloneInv'
    <2>1. pc[t] = "commit" /\ pc' = [pc EXCEPT ![t] = "done"]
        BY <1>3 DEF Commit, End, Goto
    <2>2. NoLoop'
        BY <1>0, <1>3, <2>1, CheckedClosesNoLoop DEF AloneInv, Updating
    <2>3. \A u \in Txns : pc'[u] \notin Updating
        BY <1>0, <2>1 DEF OneUpdate, Updating, TypeOK
    <2> QED BY <2>2, <2>3 DEF AloneInv
<1>4. ASSUME NEW t \in Txns, Step(t), ~Commit(t) PROVE AloneInv'
    <2>1. UNCHANGED parent
        BY <1>4 DEF Step, Begin, Lock, Locked, Climb, Return, Accept, Write, Refer, RollBack, groups
    <2>2. ASSUME NEW u \in Txns, pc'[u] \in Updating PROVE ~TriggerRefuses(u)
        <3>1. CASE pc[u] \in Updating
            BY <3>1 DEF AloneInv
        <3>2. CASE pc[u] \notin Updating
            <4>1. u = t /\ Write(t) /\ ~TriggerRefuses(t)
                BY <1>0, <1>4, <2>2, <3>2 DEF Step, Begin, Lock, Locked, Climb, Return, Accept, Write,
                    Refer, RollBack, End, Goto, TypeOK, Updating
            <4> QED BY <4>1
        <3> QED BY <3>1, <3>2
    <2> QED BY <1>1, <2>1, <2>2 DEF AloneInv
<1> QED BY <1>2, <1>3, <1>4 DEF Next

(* The one way to a loop: a link that comes between another's UPDATE, which*)
(* the database checked, and its commit.  While no two links are there at  *)
(* once no loop is closed, however long and however the rest interleaves.  *)
THEOREM ALoopTakesTwoUpdates == Spec => ([]OneUpdate => []NoLoop)
<1>1. Init => AloneInv
    BY DEF Init, AloneInv, Updating
<1>2. GroupInv /\ OneUpdate /\ AloneInv /\ [Next]_vars => AloneInv'
    BY GroupAssumption, OneUpdateKeepsAloneInv
<1>3. AloneInv => NoLoop
    BY DEF AloneInv
<1> QED BY <1>1, <1>2, <1>3, GroupInvariant, PTL DEF Spec
=============================================================================
