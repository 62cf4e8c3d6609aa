-------------------------- MODULE InputLock_proofs --------------------------
(***************************************************************************)
(* Why the requests of InputLock behave as CompanyInputs says: whoever is  *)
(* past the company lock still holds it, so what it read still stands.     *)
(***************************************************************************)
EXTENDS InputLock, RowLocks_proofs

Reviewers == {"poll", "review"}
PastCompany == {"compare", "gather", "pin", "stamp", "write"}

\* Which statements each kind of request has.
OwnStatements(t) ==
    /\ pc[t] \in {"row", "judge"} => Kind[t] \in Reviewers
    /\ pc[t] \in {"compare", "gather", "pin"} => Kind[t] = "approve"
    /\ pc[t] = "stamp" => Kind[t] = "trigger"

\* A request keeps the locks it has taken.
HoldsCompany(t) == pc[t] \in PastCompany => <<Company, LockMode(t)>> \in held[t]

HoldsResult(t) ==
    Kind[t] \in Reviewers /\ pc[t] \in {"judge", "company", "write"}
        => <<Target[t], "UPDATE">> \in held[t]

\* What a decision has read is what stands.
ReadStands(t) ==
    Kind[t] = "approve" =>
        /\ pc[t] \in {"gather", "pin", "write"} => Fresh(t)
        /\ pc[t] \in {"pin", "write"} => gathered[t] = Data!Snapshot

NumberStands(t) ==
    Kind[t] = "trigger" /\ pc[t] = "write" => number[t] = Data!Stamp

\* A trigger's row is still to be written; a poll's or review's is there.
RowExists(t) ==
    /\ Kind[t] = "trigger" /\ pc[t] \notin {"begin", "done"} => ~Data!Recorded(Target[t])
    /\ Kind[t] \in Reviewers /\ pc[t] # "begin" => Data!Recorded(Target[t])

\* What the row was judged on stands until it is written.
JudgementStands(t) ==
    pc[t] \in {"company", "write"} =>
        /\ Kind[t] = "poll" => results[Target[t]].reviews = 0
        /\ Kind[t] = "review" => /\ results[Target[t]].status # "PENDING"
                                 /\ results[Target[t]].reviews = head[t]

RequestOK(t) ==
    /\ OwnStatements(t)
    /\ HoldsCompany(t)
    /\ HoldsResult(t)
    /\ ReadStands(t)
    /\ NumberStands(t)
    /\ RowExists(t)
    /\ JudgementStands(t)

RequestInv == \A t \in Txns : RequestOK(t)

LockInv == TypeOK /\ LocksExclude /\ RequestInv

-----------------------------------------------------------------------------
(* Whoever takes the company row to decide is alone past it.               *)
LEMMA DeciderIsAlone ==
    ASSUME RequestAssumption, LockInv, NEW t \in Txns, NEW u \in Txns, t # u,
           pc[t] \in PastCompany, pc[u] \in PastCompany
    PROVE  Kind[t] \notin Deciders
<1>1. <<Company, LockMode(t)>> \in held[t] /\ <<Company, LockMode(u)>> \in held[u]
    BY DEF LockInv, RequestInv, RequestOK, HoldsCompany
<1>2. Company \in Rows /\ LockMode(t) \in Modes /\ LockMode(u) \in Modes
    BY DEF RequestAssumption, LockMode, Modes
<1>3. ~Conflict(LockMode(t), LockMode(u))
    BY <1>1, <1>2 DEF LockInv, LocksExclude
<1> QED BY <1>3 DEF Conflict, LockMode

(* Two requests never both hold one result's row.                          *)
LEMMA ResultIsAlone ==
    ASSUME RequestAssumption, LockInv, NEW t \in Txns, NEW u \in Txns, t # u,
           Kind[t] \in Reviewers, pc[t] \in {"judge", "company", "write"},
           Kind[u] \in Reviewers, pc[u] \in {"judge", "company", "write"}
    PROVE  Target[t] # Target[u]
<1>1. <<Target[t], "UPDATE">> \in held[t] /\ <<Target[u], "UPDATE">> \in held[u]
    BY DEF LockInv, RequestInv, RequestOK, HoldsResult
<1>2. Target[t] \in Rows /\ Target[u] \in Rows /\ "UPDATE" \in Modes
    BY DEF RequestAssumption, Modes
<1> QED BY <1>1, <1>2 DEF LockInv, LocksExclude, Conflict

-----------------------------------------------------------------------------
(* What a request reads of the inputs is a snapshot.                       *)
LEMMA SnapshotType ==
    ASSUME TypeOK
    PROVE  Data!Snapshot \in Snapshots
BY DEF TypeOK, Data!Snapshot, Snapshots, ResultRows, RecordedRows, Data!NoResult

(* No request has begun, and none holds a lock.                            *)
LEMMA InitLockInv ==
    ASSUME RequestAssumption, Init
    PROVE  LockInv
<1>1. TypeOK
    <2>1. results \in [Results -> ResultRows] /\ docs = 0 /\ cycle \in Nat /\ decision = {}
        BY DEF Init, Data!Init, ResultRows, RecordedRows, Data!NoResult, Data!Result, Data!Answers,
            Data!Statuses, Data!Risks
    <2>2. Data!Snapshot \in Snapshots
        BY <2>1 DEF Data!Snapshot, Snapshots, ResultRows, RecordedRows, Data!NoResult
    <2> QED BY <2>1, <2>2 DEF Init, LocksInit, TypeOK, Points, Data!Answers, Data!Statuses, Data!Risks
<1>2. LocksExclude
    BY DEF Init, LocksInit, LocksExclude
<1>3. RequestInv
    BY DEF Init, RequestInv, RequestOK, OwnStatements, HoldsCompany, HoldsResult, ReadStands,
           NumberStands, RowExists, JudgementStands, PastCompany
<1> QED BY <1>1, <1>2, <1>3 DEF LockInv

-----------------------------------------------------------------------------
\* What t alone changes of the requests' own state.
OthersKeep(t) ==
    \A u \in Txns \ {t} :
        /\ pc'[u] = pc[u] /\ held'[u] = held[u]
        /\ basis'[u] = basis[u] /\ gathered'[u] = gathered[u]
        /\ head'[u] = head[u] /\ number'[u] = number[u]

(* While the company's data stands, only the request that moved matters.   *)
LEMMA OnlyTheMover ==
    ASSUME LockInv, UNCHANGED data, NEW t \in Txns, OthersKeep(t), RequestOK(t)'
    PROVE  RequestInv'
<1> SUFFICES ASSUME NEW u \in Txns, u # t PROVE RequestOK(u)'
    BY DEF RequestInv
<1>1. RequestOK(u)
    BY DEF LockInv, RequestInv
<1> QED BY <1>1 DEF OthersKeep, data, RequestOK, OwnStatements, HoldsCompany, HoldsResult, LockMode,
         ReadStands, NumberStands, RowExists, JudgementStands,
         Fresh, Data!Fingerprint, Data!Snapshot, Data!Stamp, Data!Recorded

(* A read before any lock promises nothing yet.                            *)
LEMMA BeginKeeps ==
    ASSUME RequestAssumption, LockInv, NEW t \in Txns, Begin(t)
    PROVE  LockInv'
<1>0. TypeOK /\ LocksExclude /\ UNCHANGED <<data, held>>
    BY DEF LockInv, Begin
<1>1. TypeOK'
    BY <1>0, SnapshotType DEF TypeOK, Begin, BeginApproval, AskProvider, OpenReview, BeginOther, Goto,
         Points, data, ResultRows, RecordedRows, Data!NoResult, RequestAssumption
<1>2. LocksExclude'
    BY <1>0 DEF LocksExclude
<1>3. OthersKeep(t) /\ RequestOK(t)'
    BY <1>0 DEF TypeOK, OthersKeep, Begin, BeginApproval, AskProvider, OpenReview, BeginOther, Goto, data,
         RequestOK, OwnStatements, HoldsCompany, HoldsResult, ReadStands, NumberStands,
         RowExists, JudgementStands, Reviewers, PastCompany, Data!Recorded
<1> QED BY <1>0, <1>1, <1>2, <1>3, OnlyTheMover DEF LockInv

(* The result row is taken by one request at a time.                       *)
LEMMA LockResultKeeps ==
    ASSUME RequestAssumption, LockInv, NEW t \in Txns, LockResult(t)
    PROVE  LockInv'
<1>0. TypeOK /\ LocksExclude /\ RequestOK(t) /\ UNCHANGED <<data, local>>
    BY DEF LockInv, RequestInv, LockResult
<1>1. <<Target[t], "UPDATE">> \in Locks
    BY DEF RequestAssumption, Locks, Modes
<1>2. LocksExclude' /\ held' \in [Txns -> SUBSET Locks]
    BY <1>0, <1>1, AcquireExcludes DEF LockResult, TypeOK
<1>3. TypeOK'
    BY <1>0, <1>2 DEF TypeOK, LockResult, Goto, Points, data, local
<1>4. OthersKeep(t) /\ RequestOK(t)'
    BY <1>0 DEF TypeOK, OthersKeep, LockResult, Acquire, Goto, data, local,
         RequestOK, OwnStatements, HoldsCompany, HoldsResult, ReadStands, NumberStands,
         RowExists, JudgementStands, Reviewers, PastCompany, Data!Recorded
<1> QED BY <1>0, <1>2, <1>3, <1>4, OnlyTheMover DEF LockInv

(* A step that only moves on, or ends, the request.                        *)
LEMMA EndKeeps ==
    ASSUME RequestAssumption, LockInv, NEW t \in Txns, pc[t] # "begin", End(t), UNCHANGED <<data, local>>
    PROVE  LockInv'
<1>0. TypeOK /\ LocksExclude /\ RequestOK(t)
    BY DEF LockInv, RequestInv
<1>1. LocksExclude' /\ held' \in [Txns -> SUBSET Locks]
    BY <1>0, ReleaseExcludes DEF End, TypeOK
<1>2. TypeOK'
    BY <1>0, <1>1 DEF TypeOK, End, Goto, Points, data, local
<1>3. OthersKeep(t) /\ RequestOK(t)'
    BY <1>0 DEF TypeOK, OthersKeep, End, ReleaseAll, Goto, data, local,
         RequestOK, OwnStatements, HoldsCompany, HoldsResult, ReadStands, NumberStands,
         RowExists, JudgementStands, Reviewers, PastCompany, Data!Recorded
<1> QED BY <1>0, <1>1, <1>2, <1>3, OnlyTheMover DEF LockInv

(* A row judged under its lock stays as it was judged.                     *)
LEMMA JudgeKeeps ==
    ASSUME RequestAssumption, LockInv, NEW t \in Txns, Judge(t)
    PROVE  LockInv'
<1>0. TypeOK /\ LocksExclude /\ RequestOK(t) /\ UNCHANGED <<data, local>> /\ pc[t] = "judge"
    BY DEF LockInv, RequestInv, Judge
<1>1. CASE Judged(t)
    <2>0. Goto(t, "company") /\ UNCHANGED held
        BY <1>1 DEF Judge
    <2>1. TypeOK' /\ LocksExclude'
        BY <1>0, <2>0 DEF TypeOK, LocksExclude, Goto, Points, data, local
    <2>2. OthersKeep(t) /\ RequestOK(t)'
        BY <1>0, <1>1, <2>0 DEF TypeOK, OthersKeep, Judged, Goto, data, local,
             RequestOK, OwnStatements, HoldsCompany, HoldsResult, ReadStands, NumberStands,
             RowExists, JudgementStands, Reviewers, PastCompany, Data!Recorded
    <2> QED BY <1>0, <2>1, <2>2, OnlyTheMover DEF LockInv
<1>2. CASE ~Judged(t)
    BY <1>0, <1>2, EndKeeps DEF Judge
<1> QED BY <1>1, <1>2

(* The company row is taken in the mode of the request.                    *)
LEMMA LockCompanyKeeps ==
    ASSUME RequestAssumption, LockInv, NEW t \in Txns, LockCompany(t)
    PROVE  LockInv'
<1>0. TypeOK /\ LocksExclude /\ RequestOK(t) /\ UNCHANGED <<data, local>>
    BY DEF LockInv, RequestInv, LockCompany
<1>1. <<Company, LockMode(t)>> \in Locks
    BY DEF RequestAssumption, Locks, Modes, LockMode
<1>2. LocksExclude' /\ held' \in [Txns -> SUBSET Locks]
    BY <1>0, <1>1, AcquireExcludes DEF LockCompany, TypeOK
<1>3. TypeOK'
    BY <1>0, <1>2 DEF TypeOK, LockCompany, AfterCompany, Goto, Points, data, local
<1>4. OthersKeep(t) /\ RequestOK(t)'
    BY <1>0 DEF RequestAssumption, Kinds, TypeOK, OthersKeep, LockCompany, AfterCompany, LockMode,
         Acquire, Goto, data, local,
         RequestOK, OwnStatements, HoldsCompany, HoldsResult, ReadStands, NumberStands,
         RowExists, JudgementStands, Reviewers, PastCompany, Data!Recorded
<1> QED BY <1>0, <1>2, <1>3, <1>4, OnlyTheMover DEF LockInv

(* A proposal found fresh under the lock stays fresh.                      *)
LEMMA CompareKeeps ==
    ASSUME RequestAssumption, LockInv, NEW t \in Txns, Compare(t)
    PROVE  LockInv'
<1>0. TypeOK /\ LocksExclude /\ RequestOK(t) /\ UNCHANGED <<data, local>> /\ pc[t] = "compare"
    BY DEF LockInv, RequestInv, Compare
<1>1. CASE Fresh(t)
    <2>0. Goto(t, "gather") /\ UNCHANGED held
        BY <1>1 DEF Compare
    <2>1. TypeOK' /\ LocksExclude'
        BY <1>0, <2>0 DEF TypeOK, LocksExclude, Goto, Points, data, local
    <2>2. Fresh(t)'
        BY <1>0, <1>1 DEF data, local, Fresh, Data!Fingerprint, Data!Snapshot
    <2>3. OthersKeep(t) /\ RequestOK(t)'
        BY <1>0, <2>0, <2>2 DEF TypeOK, OthersKeep, Goto, data, local, LockMode,
             RequestOK, OwnStatements, HoldsCompany, HoldsResult, ReadStands, NumberStands,
             RowExists, JudgementStands, Reviewers, PastCompany
    <2> QED BY <1>0, <2>1, <2>3, OnlyTheMover DEF LockInv
<1>2. CASE ~Fresh(t)
    BY <1>0, <1>2, EndKeeps DEF Compare
<1> QED BY <1>1, <1>2

(* The second read of the inputs is the same as the first.                 *)
LEMMA GatherKeeps ==
    ASSUME RequestAssumption, LockInv, NEW t \in Txns, Gather(t)
    PROVE  LockInv'
<1>0. TypeOK /\ LocksExclude /\ RequestOK(t) /\ UNCHANGED <<data, held>> /\ pc[t] = "gather"
    BY DEF LockInv, RequestInv, Gather
<1>1. TypeOK' /\ LocksExclude'
    BY <1>0, SnapshotType DEF TypeOK, LocksExclude, Gather, Goto, Points, data
<1>2. Data!Snapshot' = Data!Snapshot /\ Fresh(t)' = Fresh(t)
    BY <1>0 DEF Gather, data, Fresh, Data!Fingerprint, Data!Snapshot
<1>3. OthersKeep(t) /\ RequestOK(t)'
    BY <1>0, <1>2 DEF TypeOK, OthersKeep, Gather, Goto, LockMode,
         RequestOK, OwnStatements, HoldsCompany, HoldsResult, ReadStands, NumberStands,
         RowExists, JudgementStands, Reviewers, PastCompany
<1> QED BY <1>0, <1>1, <1>3, OnlyTheMover DEF LockInv

(* Locking the evidence changes nothing that was read.                     *)
LEMMA LockEvidenceKeeps ==
    ASSUME RequestAssumption, LockInv, NEW t \in Txns, LockEvidence(t)
    PROVE  LockInv'
<1>0. TypeOK /\ LocksExclude /\ RequestOK(t) /\ UNCHANGED <<data, local, pc>> /\ pc[t] = "pin"
    BY DEF LockInv, RequestInv, LockEvidence
<1>1. PICK r \in Results : Acquire(t, <<r, "KEY SHARE">>)
    BY DEF LockEvidence, Unpinned
<1>2. <<r, "KEY SHARE">> \in Locks
    BY DEF RequestAssumption, Locks, Modes
<1>3. LocksExclude' /\ held' \in [Txns -> SUBSET Locks]
    BY <1>0, <1>1, <1>2, AcquireExcludes DEF TypeOK
<1>4. TypeOK'
    BY <1>0, <1>3 DEF TypeOK, data, local
<1>5. Data!Snapshot' = Data!Snapshot /\ Fresh(t)' = Fresh(t)
    BY <1>0 DEF data, local, Fresh, Data!Fingerprint, Data!Snapshot
<1>6. OthersKeep(t) /\ RequestOK(t)'
    BY <1>0, <1>1, <1>5 DEF TypeOK, OthersKeep, Acquire, LockMode, local,
         RequestOK, OwnStatements, HoldsCompany, HoldsResult, ReadStands, NumberStands,
         RowExists, JudgementStands, Reviewers, PastCompany
<1> QED BY <1>0, <1>3, <1>4, <1>6, OnlyTheMover DEF LockInv

(* With every evidence row named, the decision can be written.             *)
LEMMA PinnedKeeps ==
    ASSUME RequestAssumption, LockInv, NEW t \in Txns, Pinned(t)
    PROVE  LockInv'
<1>0. TypeOK /\ LocksExclude /\ RequestOK(t) /\ UNCHANGED <<data, local, held>> /\ pc[t] = "pin"
    BY DEF LockInv, RequestInv, Pinned
<1>1. TypeOK' /\ LocksExclude'
    BY <1>0 DEF TypeOK, LocksExclude, Pinned, Goto, Points, data, local
<1>2. Data!Snapshot' = Data!Snapshot /\ Fresh(t)' = Fresh(t)
    BY <1>0 DEF data, local, Fresh, Data!Fingerprint, Data!Snapshot
<1>3. OthersKeep(t) /\ RequestOK(t)'
    BY <1>0, <1>2 DEF TypeOK, OthersKeep, Pinned, Goto, LockMode, local,
         RequestOK, OwnStatements, HoldsCompany, HoldsResult, ReadStands, NumberStands,
         RowExists, JudgementStands, Reviewers, PastCompany
<1> QED BY <1>0, <1>1, <1>3, OnlyTheMover DEF LockInv

(* The cycle a result is stamped with is the current one.                  *)
LEMMA StampCycleKeeps ==
    ASSUME RequestAssumption, LockInv, NEW t \in Txns, StampCycle(t)
    PROVE  LockInv'
<1>0. TypeOK /\ LocksExclude /\ RequestOK(t) /\ UNCHANGED <<data, held>> /\ pc[t] = "stamp"
    BY DEF LockInv, RequestInv, StampCycle
<1>1. TypeOK' /\ LocksExclude'
    BY <1>0 DEF TypeOK, LocksExclude, StampCycle, CycleToStamp, Goto, Points, data
<1>2. number'[t] = Data!Stamp'
    BY <1>0 DEF TypeOK, StampCycle, CycleToStamp, Data!Stamp, data
<1>3. OthersKeep(t) /\ RequestOK(t)'
    BY <1>0, <1>2 DEF TypeOK, OthersKeep, StampCycle, Goto, LockMode, data,
         RequestOK, OwnStatements, HoldsCompany, HoldsResult, ReadStands, NumberStands,
         RowExists, JudgementStands, Reviewers, PastCompany, Data!Recorded
<1> QED BY <1>0, <1>1, <1>3, OnlyTheMover DEF LockInv

-----------------------------------------------------------------------------
(* The commit.  It changes the data, so what every other request relies on *)
(* must survive it.                                                        *)
LEMMA CommitTypes ==
    ASSUME RequestAssumption, LockInv, NEW t \in Txns, Commit(t)
    PROVE  TypeOK' /\ LocksExclude'
<1>0. TypeOK /\ LocksExclude /\ RequestOK(t) /\ UNCHANGED local /\ pc[t] = "write"
    BY DEF LockInv, RequestInv, Commit
<1>1. LocksExclude' /\ held' \in [Txns -> SUBSET Locks]
    BY <1>0, ReleaseExcludes DEF Commit, End, TypeOK
<1>2. Target[t] \in Results /\ results[Target[t]] \in ResultRows
    BY <1>0 DEF RequestAssumption, TypeOK
<1>3. Kind[t] \in Reviewers => results[Target[t]] \in RecordedRows
    BY <1>0, <1>2 DEF RequestOK, RowExists, Data!Recorded, ResultRows, RecordedRows, Data!NoResult
<1>4. Kind[t] = "trigger" => number[t] \in Nat \ {0}
    BY <1>0 DEF RequestOK, NumberStands, Data!Stamp, TypeOK
<1>5. results' \in [Results -> ResultRows]
    <2>1. CASE InsertResult(t)
        BY <1>0, <1>2, <1>4, <2>1 DEF InsertResult, TypeOK, ResultRows, RecordedRows, Data!Result, Data!Answers
    <2>2. CASE SettleResult(t)
        <3>1. answer[t].status \in Data!Statuses /\ answer[t].risk \in Data!Risks
            BY <1>0 DEF TypeOK, Data!Answers
        <3>2. results[Target[t]] \in RecordedRows
            BY <1>3, <2>2 DEF SettleResult, Reviewers
        <3>3. [results[Target[t]] EXCEPT !.status = answer[t].status] \in RecordedRows
            BY <3>1, <3>2 DEF RecordedRows
        <3>4. [results[Target[t]] EXCEPT !.status = answer[t].status, !.risk = answer[t].risk]
                 \in RecordedRows
            BY <3>1, <3>3 DEF RecordedRows
        <3>5. results' = [results EXCEPT ![Target[t]] =
                            [results[Target[t]] EXCEPT !.status = answer[t].status,
                                                       !.risk = answer[t].risk]]
            BY <2>2, Zenon DEF SettleResult
        <3> QED BY <1>0, <1>2, <3>4, <3>5 DEF TypeOK, ResultRows
    <2>3. CASE AppendReview(t)
        <3>1. results[Target[t]] \in RecordedRows
            BY <1>3, <2>3 DEF AppendReview, Reviewers
        <3>2. [results[Target[t]] EXCEPT !.reviews = @ + 1] \in RecordedRows
            BY <3>1 DEF RecordedRows
        <3>3. results' = [results EXCEPT ![Target[t]] =
                            [results[Target[t]] EXCEPT !.reviews = @ + 1]]
            BY <2>3 DEF AppendReview
        <3> QED BY <1>0, <1>2, <3>2, <3>3 DEF TypeOK, ResultRows
    <2>4. CASE UNCHANGED results
        BY <1>0, <2>4 DEF TypeOK
    <2> QED BY <2>1, <2>2, <2>3, <2>4 DEF Commit, InsertDocument, AddCycle, InsertDecision
<1>6. docs' \in Nat /\ cycle' \in Nat
    BY <1>0, <1>4 DEF Commit, InsertResult, SettleResult, AppendReview, InsertDocument, AddCycle,
         InsertDecision, TypeOK
<1>7. decision' \in SUBSET [pinned : Snapshots, proposed : Snapshots]
    BY <1>0 DEF Commit, InsertResult, SettleResult, AppendReview, InsertDocument, AddCycle,
         InsertDecision, TypeOK
<1>8. pc' \in [Txns -> Points]
    BY <1>0 DEF Commit, End, Goto, TypeOK, Points
<1> QED BY <1>0, <1>1, <1>5, <1>6, <1>7, <1>8 DEF TypeOK, local

(* No other request's result row is touched.                               *)
LEMMA OthersRows ==
    ASSUME RequestAssumption, LockInv, NEW t \in Txns, Commit(t), NEW u \in Txns, u # t
    PROVE  /\ Kind[u] = "trigger" /\ pc[u] \notin {"begin", "done"} => ~Data!Recorded(Target[u])'
           /\ Kind[u] \in Reviewers /\ pc[u] \in {"company", "write"}
                => results'[Target[u]] = results[Target[u]]
<1>0. TypeOK /\ RequestOK(t) /\ RequestOK(u) /\ pc[t] = "write"
    BY DEF LockInv, RequestInv, Commit
<1>1. \/ results' = results
      \/ /\ Kind[t] \in Reviewers \union {"trigger"}
         /\ \A r \in Results : r # Target[t] => results'[r] = results[r]
    BY <1>0 DEF Commit, InsertResult, SettleResult, AppendReview, InsertDocument, AddCycle,
         InsertDecision, TypeOK, Reviewers
<1>2. Target[t] \in Results /\ Target[u] \in Results
    BY DEF RequestAssumption
<1>3. ASSUME Kind[u] = "trigger", pc[u] \notin {"begin", "done"}
      PROVE  ~Data!Recorded(Target[u])'
    <2>1. ~Data!Recorded(Target[u])
        BY <1>0, <1>3 DEF RequestOK, RowExists
    <2>2. Kind[t] \in Reviewers \union {"trigger"} => Target[u] # Target[t]
        BY <1>0, <1>3, <2>1 DEF RequestOK, RowExists, RequestAssumption, Reviewers
    <2> QED BY <1>1, <1>2, <2>1, <2>2 DEF Data!Recorded
<1>4. ASSUME Kind[u] \in Reviewers, pc[u] \in {"company", "write"}
      PROVE  results'[Target[u]] = results[Target[u]]
    <2>1. Kind[t] = "trigger" => Target[u] # Target[t]
        BY <1>0, <1>4 DEF RequestOK, RowExists
    <2>2. Kind[t] \in Reviewers => Target[u] # Target[t]
        BY <1>0, <1>4, ResultIsAlone
    <2> QED BY <1>1, <1>2, <2>1, <2>2
<1> QED BY <1>3, <1>4

(* A row once recorded stays recorded.                                     *)
LEMMA RowsStay ==
    ASSUME RequestAssumption, LockInv, NEW t \in Txns, Commit(t), NEW r \in Results
    PROVE  /\ Data!Recorded(r) => Data!Recorded(r)'
           /\ Kind[t] \in Reviewers => Data!Recorded(Target[t])'
<1>0. TypeOK /\ RequestOK(t) /\ pc[t] = "write" /\ Target[t] \in Results
    BY DEF LockInv, RequestInv, Commit, RequestAssumption
<1>1. answer[t].status # "NONE"
    BY <1>0 DEF TypeOK, Data!Answers, Data!Statuses
<1>2. Kind[t] \in Reviewers => Data!Recorded(Target[t])
    BY <1>0 DEF RequestOK, RowExists
<1>3. \A q \in Results : results[q] \in ResultRows
    BY <1>0 DEF TypeOK
<1>4. CASE InsertResult(t)
    BY <1>0, <1>1, <1>4 DEF InsertResult, Data!Result, Data!Recorded, TypeOK, Reviewers
<1>5. CASE SettleResult(t)
    BY <1>0, <1>1, <1>2, <1>3, <1>5 DEF SettleResult, Data!Recorded, TypeOK, ResultRows, RecordedRows, Data!NoResult
<1>6. CASE AppendReview(t)
    BY <1>0, <1>2, <1>3, <1>6 DEF AppendReview, Data!Recorded, TypeOK, ResultRows, RecordedRows, Data!NoResult
<1>7. CASE UNCHANGED results
    BY <1>2, <1>7 DEF Data!Recorded
<1> QED BY <1>4, <1>5, <1>6, <1>7 DEF Commit, InsertDocument, AddCycle, InsertDecision

(* A number stamped stays the company's current one.                       *)
LEMMA StampStays ==
    ASSUME RequestAssumption, LockInv, NEW t \in Txns, Commit(t), Kind[t] \notin Deciders
    PROVE  Data!Stamp' = Data!Stamp
<1>0. TypeOK /\ RequestOK(t) /\ pc[t] = "write"
    BY DEF LockInv, RequestInv, Commit
<1>1. Kind[t] = "trigger" => number[t] = Data!Stamp
    BY <1>0 DEF RequestOK, NumberStands
<1> QED BY <1>0, <1>1 DEF Commit, InsertResult, SettleResult, AppendReview, InsertDocument, AddCycle,
         InsertDecision, TypeOK, Data!Stamp, Deciders

(* A commit leaves what every other request relies on.                     *)
LEMMA CommitKeeps ==
    ASSUME RequestAssumption, LockInv, NEW t \in Txns, Commit(t)
    PROVE  LockInv'
<1>0. TypeOK /\ RequestOK(t) /\ UNCHANGED local /\ pc[t] = "write" /\ Target[t] \in Results
    BY DEF LockInv, RequestInv, Commit, RequestAssumption
<1>1. pc'[t] = "done" /\ OthersKeep(t)
    BY <1>0 DEF Commit, End, Goto, ReleaseAll, TypeOK, OthersKeep, local
<1>2. RequestOK(t)'
    BY <1>0, <1>1, RowsStay DEF RequestOK, OwnStatements, HoldsCompany, HoldsResult, ReadStands,
         NumberStands, RowExists, JudgementStands, PastCompany
<1>3. ASSUME NEW u \in Txns, u # t PROVE RequestOK(u)'
    <2>0. RequestOK(u) /\ Target[u] \in Results
        BY DEF LockInv, RequestInv, RequestAssumption
    <2>1. OwnStatements(u)' /\ HoldsCompany(u)' /\ HoldsResult(u)'
        BY <1>1, <1>3, <2>0 DEF OthersKeep, RequestOK, OwnStatements, HoldsCompany, HoldsResult, LockMode
    <2>2. ReadStands(u)'
        BY <1>0, <1>1, <1>3, DeciderIsAlone DEF OthersKeep, ReadStands, PastCompany, Deciders
    <2>3. NumberStands(u)'
        <3> SUFFICES ASSUME Kind[u] = "trigger", pc[u] = "write" PROVE number[u] = Data!Stamp'
            BY <1>1, <1>3 DEF NumberStands, OthersKeep
        <3>1. Kind[t] \notin Deciders
            BY <1>0, <1>3, DeciderIsAlone DEF PastCompany
        <3> QED BY <2>0, <3>1, StampStays DEF RequestOK, NumberStands
    <2>4. RowExists(u)'
        BY <1>1, <1>3, <2>0, OthersRows, RowsStay DEF OthersKeep, RequestOK, RowExists
    <2>5. JudgementStands(u)'
        BY <1>1, <1>3, <2>0, OthersRows DEF OthersKeep, RequestOK, JudgementStands, Reviewers
    <2> QED BY <2>1, <2>2, <2>3, <2>4, <2>5 DEF RequestOK
<1>4. RequestInv'
    BY <1>2, <1>3 DEF RequestInv
<1> QED BY <1>4, CommitTypes DEF LockInv

(* Every statement of every request keeps the invariant.                   *)
LEMMA NextKeeps ==
    ASSUME RequestAssumption, LockInv, [Next]_vars
    PROVE  LockInv'
<1>1. ASSUME NEW t \in Txns, Begin(t) PROVE LockInv'
    BY <1>1, BeginKeeps
<1>2. ASSUME NEW t \in Txns, Step(t) PROVE LockInv'
    BY <1>2, LockResultKeeps, JudgeKeeps, LockCompanyKeeps, CompareKeeps, GatherKeeps,
       LockEvidenceKeeps, PinnedKeeps, StampCycleKeeps, CommitKeeps DEF Step
<1>3. ASSUME NEW t \in Txns, Rollback(t) PROVE LockInv'
    BY <1>3, EndKeeps DEF Rollback
<1>4. CASE UNCHANGED vars
    <2>1. \A t \in Txns : Fresh(t)' = Fresh(t)
        BY <1>4 DEF Fresh, Data!Fingerprint, Data!Snapshot, vars, data, local
    <2>2. Data!Snapshot' = Data!Snapshot /\ Data!Stamp' = Data!Stamp
        BY <1>4 DEF Data!Snapshot, Data!Stamp, vars, data
    <2>3. RequestInv'
        BY <1>4, <2>1, <2>2 DEF LockInv, RequestInv, RequestOK, OwnStatements, HoldsCompany,
             HoldsResult, LockMode, ReadStands, NumberStands, RowExists, JudgementStands,
             Data!Recorded, vars, data, local
    <2> QED BY <1>4, <2>3 DEF LockInv, TypeOK, LocksExclude, vars, data, local
<1> QED BY <1>1, <1>2, <1>3, <1>4 DEF Next

-----------------------------------------------------------------------------
(* Every committed request is one step of CompanyInputs.                   *)
LEMMA CommitImplements ==
    ASSUME RequestAssumption, LockInv, NEW t \in Txns, Commit(t)
    PROVE  [Data!Next]_data
<1>0. TypeOK /\ RequestOK(t) /\ pc[t] = "write" /\ Target[t] \in Results /\ answer[t] \in Data!Answers
    BY DEF LockInv, RequestInv, Commit, RequestAssumption, TypeOK
<1>1. CASE InsertResult(t)
    <2>1. number[t] = Data!Stamp /\ ~Data!Recorded(Target[t])
        BY <1>0, <1>1 DEF InsertResult, RequestOK, NumberStands, RowExists
    <2>2. Data!Record(Target[t], answer[t])
        BY <1>1, <2>1 DEF InsertResult, Data!Record, Data!Stamp
    <2> QED BY <1>0, <2>2 DEF Data!Next
<1>2. CASE SettleResult(t)
    <2>1. Data!Settle(Target[t], answer[t])
        BY <1>0, <1>2 DEF SettleResult, Data!Settle, RequestOK, RowExists, JudgementStands, Reviewers
    <2> QED BY <1>0, <2>1 DEF Data!Next
<1>3. CASE AppendReview(t)
    <2>1. Data!Review(Target[t])
        BY <1>0, <1>3 DEF AppendReview, Data!Review, RequestOK, RowExists, JudgementStands, Reviewers
    <2> QED BY <1>0, <2>1 DEF Data!Next
<1>4. CASE InsertDocument(t)
    BY <1>4 DEF InsertDocument, Data!Next, Data!File
<1>5. CASE AddCycle(t)
    BY <1>5 DEF AddCycle, Data!Next, Data!StartCycle, data
<1>6. CASE InsertDecision(t)
    <2>1. Fresh(t) /\ gathered[t] = Data!Snapshot
        BY <1>0, <1>6 DEF InsertDecision, RequestOK, ReadStands
    <2> QED BY <1>6, <2>1 DEF InsertDecision, Fresh, Data!Next, Data!Decide
<1> QED BY <1>1, <1>2, <1>3, <1>4, <1>5, <1>6 DEF Commit

(* Only a commit changes the data, and it takes one step of it.            *)
LEMMA NextImplements ==
    ASSUME RequestAssumption, LockInv, [Next]_vars
    PROVE  [Data!Next]_data
<1>1. ASSUME NEW t \in Txns, Commit(t) PROVE [Data!Next]_data
    BY <1>1, CommitImplements
<1>2. (\A t \in Txns : ~Commit(t)) => UNCHANGED data
    BY DEF Next, Begin, Step, LockResult, Judge, LockCompany, Compare, Gather, LockEvidence, Pinned,
         StampCycle, Rollback, vars
<1> QED BY <1>1, <1>2

-----------------------------------------------------------------------------
(* Whatever the requests, on however many results: a lock taken is kept,   *)
(* and what was read under it stands.                                      *)
THEOREM LockInvariant == Spec => []LockInv
<1>1. Init => LockInv
    BY RequestAssumption, InitLockInv
<1>2. LockInv /\ [Next]_vars => LockInv'
    BY RequestAssumption, NextKeeps
<1> QED BY <1>1, <1>2, PTL DEF Spec

(* Rows, locks and what requests read are always of their types.           *)
THEOREM LockTypes == Spec => []TypeOK
<1>1. LockInv => TypeOK
    BY DEF LockInv
<1> QED BY <1>1, LockInvariant, PTL

(* The atomicity that the background check's own model assumes: the inputs *)
(* change one request at a time, and a decision pins exactly what its      *)
(* proposal was made on, by its fingerprint, and what stands at the commit.*)
THEOREM LocksMakeRequestsAtomic == Spec => ImplementsCompanyInputs
<1>1. Init => Data!Init
    BY DEF Init
<1>2. LockInv /\ [Next]_vars => [Data!Next]_data
    BY RequestAssumption, NextImplements
<1>3. Data!Spec <=> Data!Init /\ [][Data!Next]_data
    BY DEF Data!Spec, data, Data!data
<1> QED BY <1>1, <1>2, <1>3, LockInvariant, PTL DEF Spec, ImplementsCompanyInputs

(* A review is written on the head its author saw.                         *)
THEOREM ReviewsAsSeenHolds == Spec => ReviewsAsSeen
<1>1. LockInv /\ [Next]_vars =>
        [\A t \in Txns : Kind[t] = "review" /\ Commit(t) => head[t] = results[Target[t]].reviews]_vars
    BY DEF LockInv, RequestInv, RequestOK, JudgementStands, Commit
<1> QED BY <1>1, LockInvariant, PTL DEF Spec, ReviewsAsSeen

-----------------------------------------------------------------------------
(* Whether the requests can always go on.                                  *)
UnderWay(t) == pc[t] \notin {"begin", "done"}

\* It waits for no lock, or for one that is free.
CanGoOn(t) ==
    /\ UnderWay(t)
    /\ Wanted(t) = {} \/ \E lock \in Wanted(t) : Blockers(t, lock) = {}

\* Nothing but a deadlock, which the database breaks, holds everyone up: no
\* request waits for a lock that one who is gone has left behind.
SomeoneGoesOn ==
    (\E t \in Txns : UnderWay(t)) => \E t \in Txns : CanGoOn(t) \/ Deadlocked(t, Waits)

\* Who has not begun, or is done, holds nothing.
EmptyHanded == \A t \in Txns : held[t] # {} => UnderWay(t)

(* A request takes its first lock under way, and ends without any.         *)
LEMMA NextEmptyHanded ==
    ASSUME RequestAssumption, LockInv, EmptyHanded, [Next]_vars
    PROVE  EmptyHanded'
<1>0. pc \in [Txns -> Points] /\ held \in [Txns -> SUBSET Locks]
    BY DEF LockInv, TypeOK
<1>1. CASE UNCHANGED vars
    BY <1>1 DEF vars, EmptyHanded, UnderWay
<1>2. ASSUME NEW t \in Txns, Begin(t) \/ Step(t) \/ Rollback(t)
      PROVE  EmptyHanded'
    <2>1. CASE End(t)
        BY <1>0, <2>1 DEF End, Goto, ReleaseAll, EmptyHanded, UnderWay
    <2>2. CASE UNCHANGED held /\ \E point \in Points \ {"begin", "done"} : Goto(t, point)
        BY <1>0, <2>2 DEF Goto, EmptyHanded, UnderWay
    <2>3. CASE /\ \E lock \in Locks : Acquire(t, lock)
               /\ \E point \in Points \ {"begin", "done"} : Goto(t, point)
        BY <1>0, <2>3 DEF Acquire, Goto, EmptyHanded, UnderWay
    <2>4. CASE Begin(t)
        BY <2>2, <2>4 DEF Begin, BeginApproval, AskProvider, OpenReview, BeginOther, Points
    <2>5. CASE LockResult(t)
        <3>1. <<Target[t], "UPDATE">> \in Locks
            BY DEF RequestAssumption, Locks, Modes
        <3> QED BY <2>3, <2>5, <3>1 DEF LockResult, Points
    <2>6. CASE LockCompany(t)
        <3>1. <<Company, LockMode(t)>> \in Locks
            BY DEF RequestAssumption, Locks, Modes, LockMode
        <3>2. AfterCompany(t) \in Points \ {"begin", "done"}
            BY DEF AfterCompany, Points
        <3> QED BY <2>3, <2>6, <3>1, <3>2 DEF LockCompany
    <2>7. CASE LockEvidence(t)
        BY <1>0, <2>7 DEF LockEvidence, Acquire, EmptyHanded, UnderWay
    <2>8. CASE Judge(t) \/ Compare(t) \/ Gather(t) \/ Pinned(t) \/ StampCycle(t)
        BY <2>1, <2>2, <2>8 DEF Judge, Compare, Gather, Pinned, StampCycle, Points
    <2> QED BY <1>2, <2>1, <2>4, <2>5, <2>6, <2>7, <2>8 DEF Step, Commit, Rollback
<1> QED BY <1>1, <1>2 DEF Next

(* If none can go on each waits for others under way, and that is a knot.  *)
LEMMA OrDeadlocked ==
    ASSUME IsFiniteSet(Txns), EmptyHanded
    PROVE  SomeoneGoesOn
<1> DEFINE Begun == {t \in Txns : UnderWay(t)}
<1> SUFFICES ASSUME Begun # {}, \A t \in Txns : ~CanGoOn(t)
             PROVE  \E t \in Begun : Deadlocked(t, Waits)
    BY DEF SomeoneGoesOn
<1>1. ASSUME NEW t \in Begun PROVE Waits[t] # {} /\ Waits[t] \subseteq Begun
    <2>1. PICK lock \in Wanted(t) : Blockers(t, lock) # {}
        BY DEF CanGoOn
    <2>2. Waits[t] = UNION {Blockers(t, l) : l \in Wanted(t)}
        BY DEF Waits
    <2>3. \A l : Blockers(t, l) \subseteq Begun
        BY DEF Blockers, EmptyHanded
    <2> QED BY <2>1, <2>2, <2>3
<1>2. IsFiniteSet(Begun)
    BY FS_Subset
<1> HIDE DEF Begun
<1>3. Begun \in SUBSET Txns
    BY DEF Begun
<1> QED BY <1>1, <1>2, <1>3, SomeoneIsDeadlocked

(* Of any number of requests on a company's inputs that have begun, one can*)
(* go on or is a deadlock's to be failed: no early return and no rollback  *)
(* leaves a lock for the others to wait for.                               *)
THEOREM SomeoneGoesOnHolds ==
    ASSUME IsFiniteSet(Txns)
    PROVE  Spec => []SomeoneGoesOn
<1>1. Init => EmptyHanded
    BY DEF Init, LocksInit, EmptyHanded
<1>2. LockInv /\ EmptyHanded /\ [Next]_vars => EmptyHanded'
    BY RequestAssumption, NextEmptyHanded
<1>3. EmptyHanded => SomeoneGoesOn
    BY OrDeadlocked
<1> QED BY <1>1, <1>2, <1>3, LockInvariant, PTL DEF Spec
=============================================================================
