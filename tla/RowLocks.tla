------------------------------ MODULE RowLocks ------------------------------
(***************************************************************************)
(* PostgreSQL's row locks as the services use them: FOR UPDATE, FOR SHARE, *)
(* and the FOR KEY SHARE an insert takes on each row its foreign keys name.*)
(* A lock is held until its transaction commits or rolls back.             *)
(***************************************************************************)
CONSTANTS Txns, Rows

VARIABLE held   \* the locks each transaction holds

Modes == {"KEY SHARE", "SHARE", "UPDATE"}
Locks == Rows \X Modes

Conflict(m, n) == "UPDATE" \in {m, n}

\* The transactions that keep t from a lock.
Blockers(t, lock) ==
    {u \in Txns \ {t} : \E m \in Modes : <<lock[1], m>> \in held[u] /\ Conflict(lock[2], m)}

LocksInit == held = [t \in Txns |-> {}]
Acquire(t, lock) ==
    /\ Blockers(t, lock) = {}
    /\ held' = [held EXCEPT ![t] = @ \union {lock}]
ReleaseAll(t) == held' = [held EXCEPT ![t] = {}]

\* Whether t waits, through others, for itself: whoever counts as waited for,
\* it is among them. waits[u] is whom u waits for.
Deadlocked(t, waits) ==
    /\ waits[t] # {}
    /\ \A closed \in SUBSET Txns :
          waits[t] \subseteq closed /\ (\A u \in closed : waits[u] \subseteq closed)
          => t \in closed

\* What the lock table guarantees, whatever its users do.
LocksExclude ==
    \A t, u \in Txns, row \in Rows, m, n \in Modes :
        t # u /\ <<row, m>> \in held[t] /\ <<row, n>> \in held[u] => ~Conflict(m, n)
=============================================================================
