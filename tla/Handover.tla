------------------------------ MODULE Handover ------------------------------
(***************************************************************************)
(* The requests on deals, and on the facts a handover rests on, statement  *)
(* by statement: the row locks each takes and in what order, what it judges*)
(* under them, what it commits.  Each request is made once; it may die, or *)
(* be a deadlock's victim, and is then rolled back.                        *)
(***************************************************************************)
EXTENDS Naturals, Sequences, RowLocks

CONSTANTS
    Deals, Companies, Branches, Seller, Owner, NoCompany, NoBranch,
    Rank,       \* the order of customer_id
    Validity,   \* how long a Clear stays current
    MaxTime,    \* bound: the clock stops there
    Kind,       \* what each request does
    OnDeal,     \* to which deal
    About,      \* the buyer it names, or the company whose facts it writes
    Through     \* the branch it names or writes

VARIABLES
    deal, company, branch,  \* as in DealLife
    now,
    pc,                     \* how far each request has got in its script
    taken                   \* the snapshot a handover took

Life == INSTANCE DealLife

rows == <<deal, company, branch>>
vars == <<rows, now, pc, taken, held>>

DealKinds ==
    {"open", "gather", "withdraw", "hand_over", "name_buyer", "set_branch", "set_terms", "file"}
FactKinds == {"decide", "match", "screen", "result", "contact"}
Kinds == DealKinds \union FactKinds \union {"branch"}

ASSUME DealAssumption ==
    /\ Seller \in [Deals -> Companies]
    /\ Owner \in [Branches -> Companies]
    /\ NoCompany \notin Companies
    /\ NoBranch \notin Branches

\* The rows are of three tables.
ASSUME HandoverAssumption ==
    /\ Rows = Deals \union Companies \union Branches
    /\ Deals \intersect Companies = {}
    /\ Branches \intersect (Deals \union Companies) = {}
    /\ Rank \in [Companies -> Nat]
    /\ \A c, e \in Companies : Rank[c] = Rank[e] => c = e
    /\ Validity \in Nat \ {0}
    /\ MaxTime \in Nat
    /\ Kind \in [Txns -> Kinds]
    /\ OnDeal \in [Txns -> Deals]
    /\ About \in [Txns -> Companies]
    /\ Through \in [Txns -> Branches \union {NoBranch}]
    /\ \A t \in Txns : Kind[t] = "branch" => Through[t] \in Branches

\* The statements of each request that lock, judge, read or write.
Edit == <<"begin", "deal", "judge", "history", "write", "done">>
Script ==
    [open       |-> <<"begin", "deal", "judge", "history", "conversation", "write", "done">>,
     gather     |-> Edit,
     withdraw   |-> Edit,
     set_terms  |-> Edit,
     hand_over  |-> <<"begin", "deal", "judge", "first", "second", "guard", "snapshot",
                      "write", "done">>,
     name_buyer |-> <<"begin", "deal", "judge", "buyer", "history", "write", "done">>,
     set_branch |-> <<"begin", "deal", "judge", "refer", "write", "done">>,
     file       |-> <<"begin", "deal", "judge", "write", "done">>,
     branch     |-> <<"begin", "company", "registration", "write", "done">>,
     decide     |-> <<"begin", "company", "write", "done">>,
     match      |-> <<"begin", "company", "write", "done">>,
     screen     |-> <<"begin", "company", "write", "done">>,
     result     |-> <<"begin", "company", "write", "done">>,
     contact    |-> <<"begin", "company", "write", "done">>]

At(t) == Script[Kind[t]][pc[t]]
Advance(t) == pc' = [pc EXCEPT ![t] = @ + 1]

CompanyRows ==
    [journey  : Life!Journeys,
     gauge    : {"IN_REVIEW", "CLEAR", "FLAGGED"},  \* the other values stand with FLAGGED
     expires  : Nat,                                \* of the Clear
     verdict  : {"PASSED", "FAILED", "PENDING"},    \* sanctions and AML, MISSING among PENDING
     hit      : BOOLEAN,                            \* a true match proposed or confirmed
     contact  : BOOLEAN,                            \* an active primary contact
     readyNow : BOOLEAN]                            \* the conversation is READY_NOW
Given == [buyer : Companies \union {NoCompany}, papers : Nat, terms : Nat]
DealRows ==
    [stage : Life!Stages, buyer : Companies \union {NoCompany},
     branch : Branches \union {NoBranch}, papers : Nat, terms : Nat,
     given : Given, handedAt : Nat]

\* The types, and what the database holds a deal's row to: a buyer that is not
\* the seller, a branch of the seller's, and a snapshot exactly on a handover.
TypeOK ==
    /\ deal \in [Deals -> DealRows]
    /\ \A d \in Deals :
          /\ deal[d].buyer # Seller[d]
          /\ deal[d].branch # NoBranch => Owner[deal[d].branch] = Seller[d]
          /\ deal[d].stage = "HANDED_OVER" <=> deal[d].given # Life!NothingGiven
    /\ company \in [Companies -> CompanyRows]
    /\ branch \in [Branches -> [active : BOOLEAN, flagged : BOOLEAN]]
    /\ now \in 0 .. MaxTime
    /\ pc \in [Txns -> Nat]
    /\ \A t \in Txns : pc[t] \in DOMAIN Script[Kind[t]]
    /\ taken \in [Txns -> [given : Given, at : Nat]]
    /\ held \in [Txns -> SUBSET Locks]

\* Deals between companies in good standing, or still under review.
Init ==
    /\ Life!Init
    /\ now = 0
    /\ \E j \in {"PROSPECT", "CUSTOMER"} :
          company = [c \in Companies |->
             [journey |-> j, gauge |-> IF j = "CUSTOMER" THEN "CLEAR" ELSE "IN_REVIEW",
              expires |-> IF j = "CUSTOMER" THEN Validity ELSE 0,
              verdict |-> "PASSED", hit |-> FALSE, contact |-> TRUE, readyNow |-> FALSE]]
    /\ branch = [b \in Branches |-> [active |-> TRUE, flagged |-> FALSE]]
    /\ pc = [t \in Txns |-> 1]
    /\ taken = [t \in Txns |-> [given |-> Life!NothingGiven, at |-> 0]]
    /\ LocksInit

\* Mutant: an early return leaves its transaction open.
LeavesLocks(t) == pc' = [pc EXCEPT ![t] = Len(Script[Kind[t]])] /\ UNCHANGED held

\* Commit or roll back: the locks go either way.
End(t) == pc' = [pc EXCEPT ![t] = Len(Script[Kind[t]])] /\ ReleaseAll(t)

-----------------------------------------------------------------------------
(* The locks.                                                              *)

\* A deal that is not there is a 404.
Begin(t) ==
    /\ At(t) = "begin"
    /\ Kind[t] \in DealKinds \ {"open"} => Life!Opened(OnDeal[t])
    /\ Advance(t)
    /\ UNCHANGED <<rows, now, taken, held>>

\* Mutant: a handover and an upload may share the deal.
ShareTheDeal(t) == IF Kind[t] \in {"file", "hand_over"} THEN "SHARE" ELSE "UPDATE"

\* lock_by_id and _lock_open_deal; an open's insert holds its new row, and
\* its unique reference, the same way.
DealMode(t) == "UPDATE"

\* Mutant: the handover takes the parties to write.
PartiesToWrite == "UPDATE"
PartyMode == "SHARE"

\* Both parties in one statement ordered by customer_id.
FirstParty(d) ==
    IF Rank[Seller[d]] < Rank[deal[d].buyer] THEN Seller[d] ELSE deal[d].buyer
SecondParty(d) ==
    IF Rank[Seller[d]] < Rank[deal[d].buyer] THEN deal[d].buyer ELSE Seller[d]

\* Mutant: a branch's flag does not keep a handover out.
FlagsShareTheCompany(t) ==
    IF Kind[t] \in {"decide", "match"} THEN "UPDATE"
    ELSE IF Kind[t] \in {"result", "branch"} THEN "SHARE" ELSE "KEY SHARE"

\* A decision or a ruling takes the company to write, a check result to keep
\* decisions out; a screening run or a contact's history row only refers to it.
CompanyMode(t) ==
    IF Kind[t] \in {"decide", "match", "branch"} THEN "UPDATE"
    ELSE IF Kind[t] = "result" THEN "SHARE" ELSE "KEY SHARE"
Subject(t) == IF Kind[t] = "branch" THEN Owner[Through[t]] ELSE About[t]

\* A history row refers to the seller; when the deal's new branch is flushed with
\* it, the session may write either first.
Wanted(t) ==
    LET d == OnDeal[t]
    IN  IF At(t) = "deal" THEN {<<d, DealMode(t)>>}
        ELSE IF At(t) = "history" THEN {<<Seller[d], "KEY SHARE">>}
        ELSE IF At(t) = "conversation" THEN {<<Seller[d], "UPDATE">>}
        ELSE IF At(t) = "first" THEN {<<FirstParty(d), PartyMode>>}
        ELSE IF At(t) = "second" THEN {<<SecondParty(d), PartyMode>>}
        ELSE IF At(t) = "buyer" THEN {<<About[t], "KEY SHARE">>}
        ELSE IF At(t) = "company" THEN {<<Subject(t), CompanyMode(t)>>}
        ELSE IF At(t) = "registration" THEN {<<Through[t], "UPDATE">>}
        ELSE IF At(t) = "refer"
          THEN ({<<Seller[d], "KEY SHARE">>}
                \union {<<b, "KEY SHARE">> : b \in {Through[t]} \ {NoBranch}}) \ held[t]
        ELSE {}

TakeLock(t) ==
    /\ \E lock \in Wanted(t) :
          /\ Acquire(t, lock)
          /\ IF Wanted(t) = {lock} THEN Advance(t) ELSE UNCHANGED pc
    /\ UNCHANGED <<rows, now, taken>>

-----------------------------------------------------------------------------
(* What is judged and read under them.                                     *)

\* The deal's own checks.  A branch is read unlocked; an open that waited for
\* another with its reference is refused.
Allowed(t) ==
    LET d == OnDeal[t]
    IN  \/ /\ Kind[t] = "open"
           /\ ~Life!Opened(d)
           /\ company[Seller[d]].journey # "LEAD"
        \/ /\ Kind[t] = "gather"
           /\ <<deal[d].stage, "GATHERING_PAPERWORK">> \in Life!PermittedMoves
        \/ /\ Kind[t] = "withdraw"
           /\ <<deal[d].stage, "WITHDRAWN">> \in Life!PermittedMoves
        \/ /\ Kind[t] = "hand_over"
           /\ <<deal[d].stage, "HANDED_OVER">> \in Life!PermittedMoves
           /\ deal[d].buyer # NoCompany
        \/ /\ Kind[t] = "name_buyer"
           /\ Life!Live(d)
           /\ deal[d].buyer = NoCompany
           /\ About[t] # Seller[d]
        \/ /\ Kind[t] = "set_branch"
           /\ Life!Live(d)
           /\ Through[t] # NoBranch => Owner[Through[t]] = Seller[d] /\ branch[Through[t]].active
           /\ deal[d].branch # Through[t]
        \/ /\ Kind[t] \in {"set_terms", "file"}
           /\ Life!Live(d)

\* HANDOVER_CONDITIONS, read once under the share locks.
Unblocked(d) ==
    LET seller == company[Seller[d]]
    IN  /\ Life!HandoverStands(d)
        /\ seller.contact
        /\ ~seller.hit
        /\ now < seller.expires
        /\ seller.verdict # "FAILED"
        /\ company[deal[d].buyer].verdict = "PASSED"

Judge(t) ==
    /\ \/ At(t) = "judge" /\ (IF Allowed(t) THEN Advance(t) /\ UNCHANGED held ELSE End(t))
       \/ At(t) = "guard" /\ (IF Unblocked(OnDeal[t]) THEN Advance(t) /\ UNCHANGED held ELSE End(t))
    /\ UNCHANGED <<rows, now, taken>>

\* handed_over_at is the clock read again, after the guard.
Snapshot(t) ==
    /\ At(t) = "snapshot"
    /\ taken' = [taken EXCEPT ![t] = [given |-> Life!Offered(OnDeal[t]), at |-> now]]
    /\ Advance(t)
    /\ UNCHANGED <<rows, now, held>>

-----------------------------------------------------------------------------
(* What each request commits.                                              *)

InsertDeal(t) ==
    /\ Kind[t] = "open"
    /\ deal' = [deal EXCEPT ![OnDeal[t]] = Life!NewDeal]
    /\ company' = [company EXCEPT ![Seller[OnDeal[t]]].readyNow = TRUE]

MoveStage(t) ==
    /\ Kind[t] \in {"gather", "withdraw"}
    /\ deal' = [deal EXCEPT ![OnDeal[t]].stage =
                  IF Kind[t] = "gather" THEN "GATHERING_PAPERWORK" ELSE "WITHDRAWN"]
    /\ UNCHANGED company

\* Mutant: the snapshot is announced and never stored.
AnnouncedOnly(t) ==
    /\ Kind[t] = "hand_over"
    /\ deal' = [deal EXCEPT ![OnDeal[t]] =
                  [deal[OnDeal[t]] EXCEPT !.stage = "HANDED_OVER", !.handedAt = taken[t].at]]
    /\ UNCHANGED company

RecordHandover(t) ==
    /\ Kind[t] = "hand_over"
    /\ deal' = [deal EXCEPT ![OnDeal[t]] =
                  [deal[OnDeal[t]] EXCEPT !.stage = "HANDED_OVER",
                     !.given = taken[t].given, !.handedAt = taken[t].at]]
    /\ UNCHANGED company

SetBuyer(t) ==
    /\ Kind[t] = "name_buyer"
    /\ deal' = [deal EXCEPT ![OnDeal[t]].buyer = About[t]]
    /\ UNCHANGED company

SetBranch(t) ==
    /\ Kind[t] = "set_branch"
    /\ deal' = [deal EXCEPT ![OnDeal[t]].branch = Through[t]]
    /\ UNCHANGED company

ChangeTerms(t) ==
    /\ Kind[t] = "set_terms"
    /\ deal' = [deal EXCEPT ![OnDeal[t]].terms = @ + 1]
    /\ UNCHANGED company

InsertDocument(t) ==
    /\ Kind[t] = "file"
    /\ deal' = [deal EXCEPT ![OnDeal[t]].papers = @ + 1]
    /\ UNCHANGED company

\* A Clear dates its expiry, and may make the prospect a customer.
Cleared(row) ==
    {[row EXCEPT !.gauge = "CLEAR", !.expires = now + Validity, !.journey = j] :
        j \in {row.journey} \union (IF row.journey = "PROSPECT" THEN {"CUSTOMER"} ELSE {})}

\* What a request may write of the company it is about; a contact who leaves is
\* no longer the primary.
Facts(t) ==
    LET row == company[About[t]]
    IN  UNION {IF Kind[t] = "decide"
                 THEN Cleared(row) \union {[row EXCEPT !.gauge = "FLAGGED", !.expires = 0]} ELSE {},
               IF Kind[t] = "match" THEN {[row EXCEPT !.hit = TRUE]} ELSE {},
               IF Kind[t] = "screen" THEN {[row EXCEPT !.hit = FALSE]} ELSE {},
               IF Kind[t] = "result"
                 THEN {[row EXCEPT !.verdict = v] : v \in {"PASSED", "FAILED", "PENDING"}} ELSE {},
               IF Kind[t] = "contact" THEN {[row EXCEPT !.contact = FALSE]} ELSE {}}

WriteFacts(t) ==
    /\ Kind[t] \in FactKinds
    /\ \E row \in Facts(t) : company' = [company EXCEPT ![About[t]] = row]
    /\ UNCHANGED deal

\* Added again or deactivated; flagged or no longer.
WriteBranch(t) ==
    /\ Kind[t] = "branch"
    /\ \E b \in BOOLEAN :
          \/ branch' = [branch EXCEPT ![Through[t]].active = b]
          \/ branch' = [branch EXCEPT ![Through[t]].flagged = b]
    /\ UNCHANGED <<deal, company>>

Write(t) ==
    /\ At(t) = "write"
    /\ \/ InsertDeal(t) /\ UNCHANGED branch
       \/ MoveStage(t) /\ UNCHANGED branch
       \/ RecordHandover(t) /\ UNCHANGED branch
       \/ SetBuyer(t) /\ UNCHANGED branch
       \/ SetBranch(t) /\ UNCHANGED branch
       \/ ChangeTerms(t) /\ UNCHANGED branch
       \/ InsertDocument(t) /\ UNCHANGED branch
       \/ WriteFacts(t) /\ UNCHANGED branch
       \/ WriteBranch(t)
    /\ End(t)
    /\ UNCHANGED <<now, taken>>

-----------------------------------------------------------------------------
Waits == [t \in Txns |-> UNION {Blockers(t, lock) : lock \in Wanted(t)}]

Rollback(t) ==
    /\ At(t) \notin {"begin", "done"}
    /\ End(t)
    /\ UNCHANGED <<rows, now, taken>>

Victim(t) == Deadlocked(t, Waits) /\ Rollback(t)

Tick ==
    /\ now < MaxTime
    /\ now' = now + 1
    /\ UNCHANGED <<rows, pc, taken, held>>

Step(t) == TakeLock(t) \/ Judge(t) \/ Snapshot(t) \/ Write(t)

Next == (\E t \in Txns : Begin(t) \/ Step(t) \/ Rollback(t)) \/ Tick

\* While a request that has begun can go on, one does, and the database breaks
\* every deadlock.
Fairness == WF_vars(\E t \in Txns : Step(t) \/ Victim(t))

Spec == Init /\ [][Next]_vars /\ Fairness

-----------------------------------------------------------------------------
(* However the requests interleave, a deal lives as DealLife promises; most*)
(* of all, no flag, decision or deactivation on the seller or its branch   *)
(* lands between the handover's guard and its commit (section 6.1).        *)
ImplementsDealLife == Life!Spec

(* What the lending team was given is what the deal still says: no upload, *)
(* new term or buyer slips in between the snapshot and the commit, or      *)
(* after it (section 6.2).                                                 *)
HandedOverAsSnapshotted ==
    \A d \in Deals : deal[d].stage = "HANDED_OVER" => deal[d].given = Life!Offered(d)

(* A request that waited for a deal while another closed it changes        *)
(* nothing: a closed deal's row, its paperwork included, is final.         *)
ClosedIsFinal ==
    [][\A d \in Deals : deal[d].stage \in Life!Closed => deal'[d] = deal[d]]_vars

(* Sharing the parties rather than taking them to write, a handover is     *)
(* never one of the requests of a deadlock, though it holds its deal, one  *)
(* party and waits for the other.                                          *)
HandoverNeverDeadlocks ==
    \A t \in Txns : Kind[t] = "hand_over" => ~Deadlocked(t, Waits)

(* Every request ends.  Two deals opened on one seller deadlock: each has  *)
(* referred to it and then wants it to set READY_NOW.  So can a branch     *)
(* being flagged and a deal naming it.  Only the database's detector ends  *)
(* that.                                                                   *)
EveryRequestEnds == \A t \in Txns : At(t) # "begin" ~> At(t) = "done"
=============================================================================
