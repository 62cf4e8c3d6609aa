------------------------------ MODULE InputLock ------------------------------
(***************************************************************************)
(* The requests that write or decide on one company's inputs, statement by *)
(* statement: what each reads before and after a lock, which row locks it  *)
(* takes and in what order.  Under READ COMMITTED a write is seen once its *)
(* transaction commits; a request that dies or is a deadlock's victim is   *)
(* rolled back.                                                            *)
(***************************************************************************)
EXTENDS Naturals, RowLocks

CONSTANTS
    Results,    \* verification_result rows, all about this company
    Company,    \* its exporter_profile row
    Kind,       \* what each request does
    Target      \* the result a trigger writes, or a poll or review is about

Kinds == {"approve", "start_cycle", "trigger", "poll", "review", "upload"}

\* A trigger's row is new, so no other trigger writes it.
ASSUME RequestAssumption ==
    /\ Company \notin Results
    /\ Rows = Results \union {Company}
    /\ Kind \in [Txns -> Kinds]
    /\ Target \in [Txns -> Results]
    /\ \A t, u \in Txns :
         Kind[t] = "trigger" /\ Kind[u] = "trigger" /\ Target[t] = Target[u] => t = u

VARIABLES
    results, docs, cycle, decision,     \* as in CompanyInputs
    pc,         \* the statement each request is at
    basis,      \* what an approval's proposal was made on
    head,       \* how many reviews a reviewer saw on their screen
    answer,     \* what the provider answered
    gathered,   \* what an approval read to record, under its lock
    number      \* the number of the cycle a trigger stamps its result with

Data == INSTANCE CompanyInputs

data == <<results, docs, cycle, decision>>
local == <<basis, head, answer, gathered, number>>
vars == <<data, local, pc, held>>

Points ==
    {"begin", "row", "judge", "company", "compare", "gather", "pin", "stamp", "write", "done"}

RecordedRows == [status : Data!Statuses, risk : Data!Risks, reviews : Nat, cycle : Nat \ {0}]
ResultRows == RecordedRows \union {Data!NoResult}
Snapshots == [cycle : Nat, docs : Nat, results : [Results -> ResultRows]]

TypeOK ==
    /\ held \in [Txns -> SUBSET Locks]
    /\ results \in [Results -> ResultRows]
    /\ docs \in Nat
    /\ cycle \in Nat
    /\ decision \in SUBSET [pinned : Snapshots, proposed : Snapshots]
    /\ pc \in [Txns -> Points]
    /\ basis \in [Txns -> Snapshots]
    /\ head \in [Txns -> Nat]
    /\ answer \in [Txns -> Data!Answers]
    /\ gathered \in [Txns -> Snapshots]
    /\ number \in [Txns -> Nat]

Init ==
    /\ Data!Init
    /\ LocksInit
    /\ pc = [t \in Txns |-> "begin"]
    /\ basis = [t \in Txns |-> Data!Snapshot]
    /\ head = [t \in Txns |-> 0]
    /\ answer = [t \in Txns |-> [status |-> "PENDING", risk |-> "LOW"]]
    /\ gathered = [t \in Txns |-> Data!Snapshot]
    /\ number = [t \in Txns |-> 0]

Goto(t, point) == pc' = [pc EXCEPT ![t] = point]

\* Mutant: an early return leaves its transaction open.
LeavesLocks(t) == Goto(t, "done") /\ UNCHANGED held

\* Commit or roll back: the locks go either way.
End(t) == Goto(t, "done") /\ ReleaseAll(t)

-----------------------------------------------------------------------------
(* Before any lock.                                                        *)

\* An approval answers a proposal that was made on what stood then.
BeginApproval(t) ==
    /\ Kind[t] = "approve"
    /\ basis' = [basis EXCEPT ![t] = Data!Snapshot]
    /\ Goto(t, "company")
    /\ UNCHANGED <<head, answer>>

\* The provider works with no lock held.
AskProvider(t) ==
    /\ \/ Kind[t] = "trigger" /\ ~Data!Recorded(Target[t]) /\ Goto(t, "company")
       \/ Kind[t] = "poll" /\ Data!Recorded(Target[t]) /\ Goto(t, "row")
    /\ \E a \in Data!Answers : answer' = [answer EXCEPT ![t] = a]
    /\ UNCHANGED <<basis, head>>

\* The reviewer names the review head on their screen.
OpenReview(t) ==
    /\ Kind[t] = "review"
    /\ Data!Recorded(Target[t])
    /\ head' = [head EXCEPT ![t] = results[Target[t]].reviews]
    /\ Goto(t, "row")
    /\ UNCHANGED <<basis, answer>>

BeginOther(t) ==
    /\ Kind[t] \in {"start_cycle", "upload"}
    /\ Goto(t, "company")
    /\ UNCHANGED <<basis, head, answer>>

Begin(t) ==
    /\ pc[t] = "begin"
    /\ BeginApproval(t) \/ AskProvider(t) \/ OpenReview(t) \/ BeginOther(t)
    /\ UNCHANGED <<data, gathered, number, held>>

-----------------------------------------------------------------------------
(* The result row, which a poll and a review take first.                   *)

LockResult(t) ==
    /\ pc[t] = "row"
    /\ Acquire(t, <<Target[t], "UPDATE">>)
    /\ Goto(t, "judge")
    /\ UNCHANGED <<data, local>>

Changes(row, said) == row.status # said.status \/ row.risk # said.risk

\* Mutant: a review of a head its author did not see.
AnyHead(t) ==
    LET row == results[Target[t]]
    IN  IF Kind[t] = "poll" THEN Changes(row, answer[t]) /\ row.reviews = 0
                            ELSE row.status # "PENDING"

\* Under the row lock: a poll writes a changed answer to an unreviewed row, a
\* review supersedes the head it named on a settled one.
Judged(t) ==
    LET row == results[Target[t]]
    IN  IF Kind[t] = "poll" THEN Changes(row, answer[t]) /\ row.reviews = 0
                            ELSE row.status # "PENDING" /\ row.reviews = head[t]

Judge(t) ==
    /\ pc[t] = "judge"
    /\ IF Judged(t) THEN Goto(t, "company") /\ UNCHANGED held ELSE End(t)
    /\ UNCHANGED <<data, local>>

-----------------------------------------------------------------------------
(* The company row.                                                        *)

Deciders == {"approve", "start_cycle"}

\* Mutant: a decision takes the row as the input writers do.
ShareToDecide(t) == IF Kind[t] = "upload" THEN "KEY SHARE" ELSE "SHARE"

\* An upload takes only what its foreign key does.
LockMode(t) ==
    IF Kind[t] \in Deciders THEN "UPDATE"
    ELSE IF Kind[t] = "upload" THEN "KEY SHARE" ELSE "SHARE"

AfterCompany(t) ==
    IF Kind[t] = "approve" THEN "compare"
    ELSE IF Kind[t] = "trigger" THEN "stamp" ELSE "write"

LockCompany(t) ==
    /\ pc[t] = "company"
    /\ Acquire(t, <<Company, LockMode(t)>>)
    /\ Goto(t, AfterCompany(t))
    /\ UNCHANGED <<data, local>>

\* _staleness.
Fresh(t) == Data!Fingerprint(Data!Snapshot) = Data!Fingerprint(basis[t])

Compare(t) ==
    /\ pc[t] = "compare"
    /\ IF Fresh(t) THEN Goto(t, "gather") /\ UNCHANGED held ELSE End(t)
    /\ UNCHANGED <<data, local>>

\* _apply_move reads the inputs again, then inserts an evidence row for each
\* result, whose foreign key locks it.
Gather(t) ==
    /\ pc[t] = "gather"
    /\ gathered' = [gathered EXCEPT ![t] = Data!Snapshot]
    /\ Goto(t, "pin")
    /\ UNCHANGED <<data, basis, head, answer, number, held>>

Unpinned(t) ==
    {r \in Results :
        gathered[t].results[r] # Data!NoResult /\ <<r, "KEY SHARE">> \notin held[t]}

LockEvidence(t) ==
    /\ pc[t] = "pin"
    /\ \E r \in Unpinned(t) : Acquire(t, <<r, "KEY SHARE">>)
    /\ UNCHANGED <<data, local, pc>>

Pinned(t) ==
    /\ pc[t] = "pin"
    /\ Unpinned(t) = {}
    /\ Goto(t, "write")
    /\ UNCHANGED <<data, local, held>>

\* current_or_initial.
CycleToStamp == IF cycle = 0 THEN 1 ELSE cycle

StampCycle(t) ==
    /\ pc[t] = "stamp"
    /\ number' = [number EXCEPT ![t] = CycleToStamp]
    /\ Goto(t, "write")
    /\ UNCHANGED <<data, basis, head, answer, gathered, held>>

-----------------------------------------------------------------------------
(* What each request commits, from what it read.                           *)

InsertResult(t) ==
    /\ Kind[t] = "trigger"
    /\ results' = [results EXCEPT ![Target[t]] = Data!Result(answer[t], number[t])]
    /\ cycle' = IF cycle = 0 THEN number[t] ELSE cycle
    /\ UNCHANGED <<docs, decision>>

SettleResult(t) ==
    /\ Kind[t] = "poll"
    /\ results' = [results EXCEPT ![Target[t]] =
                     [@ EXCEPT !.status = answer[t].status, !.risk = answer[t].risk]]
    /\ UNCHANGED <<docs, cycle, decision>>

AppendReview(t) ==
    /\ Kind[t] = "review"
    /\ results' = [results EXCEPT ![Target[t]] = [results[Target[t]] EXCEPT !.reviews = @ + 1]]
    /\ UNCHANGED <<docs, cycle, decision>>

InsertDocument(t) ==
    /\ Kind[t] = "upload"
    /\ docs' = docs + 1
    /\ UNCHANGED <<results, cycle, decision>>

\* Refused while the current cycle is empty.
AddCycle(t) ==
    /\ Kind[t] = "start_cycle"
    /\ cycle' = IF \E r \in Results : Data!Recorded(r) /\ results[r].cycle = cycle
                  THEN cycle + 1 ELSE cycle
    /\ UNCHANGED <<results, docs, decision>>

InsertDecision(t) ==
    /\ Kind[t] = "approve"
    /\ decision' = {[pinned |-> gathered[t], proposed |-> basis[t]]}
    /\ UNCHANGED <<results, docs, cycle>>

Commit(t) ==
    /\ pc[t] = "write"
    /\ \/ InsertResult(t) \/ SettleResult(t) \/ AppendReview(t)
       \/ InsertDocument(t) \/ AddCycle(t) \/ InsertDecision(t)
    /\ End(t)
    /\ UNCHANGED local

-----------------------------------------------------------------------------
(* Rolled back: by the database, which breaks a deadlock by failing one of *)
(* its transactions, or because the request or the server died.            *)

Wanted(t) ==
    {lock \in Locks :
        \/ pc[t] = "row" /\ lock = <<Target[t], "UPDATE">>
        \/ pc[t] = "company" /\ lock = <<Company, LockMode(t)>>
        \/ pc[t] = "pin" /\ lock \in {<<r, "KEY SHARE">> : r \in Unpinned(t)}}

Waits == [t \in Txns |-> UNION {Blockers(t, lock) : lock \in Wanted(t)}]

Rollback(t) ==
    /\ pc[t] \notin {"begin", "done"}
    /\ End(t)
    /\ UNCHANGED <<data, local>>

Victim(t) == Deadlocked(t, Waits) /\ Rollback(t)

Step(t) ==
    \/ LockResult(t) \/ Judge(t)
    \/ LockCompany(t) \/ Compare(t) \/ Gather(t) \/ LockEvidence(t) \/ Pinned(t)
    \/ StampCycle(t)
    \/ Commit(t)

Next == \E t \in Txns : Begin(t) \/ Step(t) \/ Rollback(t)

\* While a request that has begun can go on, one does, and the database breaks
\* every deadlock.
Fairness == WF_vars(\E t \in Txns : Step(t) \/ Victim(t))

Spec == Init /\ [][Next]_vars /\ Fairness

-----------------------------------------------------------------------------
(* Section 12.1 invariant 5: however the requests interleave, the company's*)
(* inputs behave as if each were made in one step under no one else's eyes.*)
ImplementsCompanyInputs == Data!Spec

(* A reviewer never overrules a review they did not see, however long the  *)
(* request waited for the row.                                             *)
ReviewsAsSeen ==
    [][\A t \in Txns : Kind[t] = "review" /\ Commit(t) => head[t] = results[Target[t]].reviews]_vars

(* Every request ends: refused, committed, or failed by the database. A    *)
(* review or a poll that holds its result while it waits for the company   *)
(* can deadlock with a decision that pins that result as evidence, and     *)
(* only the database's detector ends that.                                 *)
EveryRequestEnds == \A t \in Txns : pc[t] # "begin" ~> pc[t] = "done"
=============================================================================
