--------------------------- MODULE RowLocks_proofs ---------------------------
(* What the lock table keeps true, for every user of RowLocks.             *)
EXTENDS RowLocks, FiniteSetTheorems, TLAPS

(* The database grants no lock against another's.                          *)
LEMMA AcquireExcludes ==
    ASSUME held \in [Txns -> SUBSET Locks], LocksExclude,
           NEW t \in Txns, NEW lock \in Locks, Acquire(t, lock)
    PROVE  LocksExclude' /\ held' \in [Txns -> SUBSET Locks]
<1>1. held' = [held EXCEPT ![t] = @ \union {lock}] /\ held \in [Txns -> SUBSET Locks]
    BY DEF Acquire
<1>2. PICK row \in Rows, mode \in Modes : lock = <<row, mode>>
    BY DEF Locks
<1>3. \A u \in Txns \ {t} : \A n \in Modes : <<row, n>> \in held[u] => ~Conflict(mode, n)
    BY <1>2 DEF Acquire, Blockers
<1>4. LocksExclude'
    <2> SUFFICES ASSUME NEW v \in Txns, NEW u \in Txns, NEW s \in Rows,
                        NEW m \in Modes, NEW n \in Modes,
                        v # u, <<s, m>> \in held'[v], <<s, n>> \in held'[u]
                 PROVE  ~Conflict(m, n)
        BY DEF LocksExclude
    <2>1. CASE v # t /\ u # t
        BY <1>1, <2>1 DEF LocksExclude
    <2>2. CASE v = t
        <3>1. <<s, n>> \in held[u] BY <1>1, <2>2
        <3>2. CASE <<s, m>> \in held[t] BY <2>2, <3>1, <3>2 DEF LocksExclude
        <3>3. CASE <<s, m>> = lock BY <1>2, <1>3, <2>2, <3>1, <3>3
        <3> QED BY <1>1, <2>2, <3>2, <3>3
    <2>3. CASE u = t
        <3>1. <<s, m>> \in held[v] BY <1>1, <2>3
        <3>2. CASE <<s, n>> \in held[t] BY <2>3, <3>1, <3>2 DEF LocksExclude
        <3>3. CASE <<s, n>> = lock BY <1>2, <1>3, <2>3, <3>1, <3>3 DEF Conflict
        <3> QED BY <1>1, <2>3, <3>2, <3>3
    <2> QED BY <2>1, <2>2, <2>3
<1> QED BY <1>1, <1>4

(* A commit or rollback leaves no one with conflicting locks.              *)
LEMMA ReleaseExcludes ==
    ASSUME held \in [Txns -> SUBSET Locks], LocksExclude, NEW t \in Txns, ReleaseAll(t)
    PROVE  LocksExclude' /\ held' \in [Txns -> SUBSET Locks]
BY DEF LocksExclude, ReleaseAll

(* Where everyone of some waits, and only for others of them, one of them  *)
(* waits for itself: a smallest part that waits for nobody outside it is a *)
(* knot, each of whose members waits for all the others.                   *)
LEMMA SomeoneIsDeadlocked ==
    ASSUME NEW waits, NEW S \in SUBSET Txns, IsFiniteSet(S), S # {},
           \A t \in S : waits[t] # {} /\ waits[t] \subseteq S
    PROVE  \E t \in S : Deadlocked(t, waits)
<1> DEFINE Closed(C) == C # {} /\ \A t \in C : waits[t] \subseteq C
           Sizes == {n \in Nat : \E C \in SUBSET S : Closed(C) /\ Cardinality(C) = n}
           R == OpToRel(<, Nat)
<1>1. \A C \in SUBSET S : IsFiniteSet(C) /\ Cardinality(C) \in Nat
    BY FS_Subset, FS_CardinalityType
<1>2. Cardinality(S) \in Sizes
    BY <1>1
<1>3. PICK n \in Sizes : \A m \in Sizes : <<m, n>> \notin R
    <2>1. IsWellFoundedOn(R, Nat)
        BY NatLessThanWellFounded
    <2>2. Sizes \subseteq Nat
        OBVIOUS
    <2> HIDE DEF Sizes, R
    <2> QED BY <1>2, <2>1, <2>2, WFMin
<1>4. \A m \in Sizes : n <= m
    <2> SUFFICES ASSUME NEW m \in Sizes PROVE n <= m
        OBVIOUS
    <2>1. R = {p \in Nat \X Nat : p[1] < p[2]}
        BY DEF OpToRel
    <2>2. m \in Nat /\ n \in Nat /\ (m < n => <<m, n>> \in {p \in Nat \X Nat : p[1] < p[2]})
        OBVIOUS
    <2>3. ~(m < n)
        <3> HIDE DEF R, Sizes
        <3> QED BY <1>3, <2>1, <2>2
    <2> QED BY <2>2, <2>3
<1>5. PICK C \in SUBSET S : Closed(C) /\ Cardinality(C) = n
    BY <1>3
<1>6. PICK t \in C : TRUE
    BY <1>5
<1>7. ASSUME NEW closed \in SUBSET Txns, waits[t] \subseteq closed,
             \A u \in closed : waits[u] \subseteq closed
      PROVE  t \in closed
    <2> DEFINE D == closed \intersect C
    <2>1. D \in SUBSET S /\ D \in SUBSET C /\ Closed(D)
        BY <1>5, <1>6, <1>7
    <2>2. Cardinality(D) \in Sizes
        BY <1>1, <2>1
    <2>3. IsFiniteSet(C) /\ Cardinality(D) <= Cardinality(C)
          /\ (Cardinality(C) = Cardinality(D) => C = D)
        BY <1>1, <1>5, <2>1, FS_Subset
    <2>4. Cardinality(D) = Cardinality(C)
        <3>1. Cardinality(C) <= Cardinality(D)
            BY <1>4, <1>5, <2>2
        <3> HIDE DEF D
        <3> QED BY <1>1, <2>1, <2>3, <3>1
    <2> QED BY <1>6, <2>3, <2>4
<1> QED BY <1>5, <1>6, <1>7 DEF Deadlocked
=============================================================================
