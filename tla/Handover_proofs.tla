--------------------------- MODULE Handover_proofs ---------------------------
(***************************************************************************)
(* Why a deal lives as DealLife says, and why a handover is in no deadlock:*)
(* a request past its judgement still holds its deal, and a handover past  *)
(* its guard both parties, so nothing it went by has moved.                *)
(***************************************************************************)
EXTENDS Handover, RowLocks_proofs

PastJudge ==
    {"history", "conversation", "buyer", "refer", "first", "second", "guard", "snapshot", "write"}
Points == PastJudge \union {"begin", "deal", "judge", "company", "registration", "done"}
Unlocked == {"begin", "deal", "company", "done"}

\* The statement after each one.
After(k, point) ==
    IF point = "begin" THEN (IF k \in DealKinds THEN "deal" ELSE "company")
    ELSE IF point = "deal" THEN "judge"
    ELSE IF point = "judge" THEN
        (IF k = "hand_over" THEN "first" ELSE IF k = "name_buyer" THEN "buyer"
         ELSE IF k = "set_branch" THEN "refer" ELSE IF k = "file" THEN "write" ELSE "history")
    ELSE IF point = "history" /\ k = "open" THEN "conversation"
    ELSE IF point = "buyer" THEN "history"
    ELSE IF point = "first" THEN "second"
    ELSE IF point = "second" THEN "guard"
    ELSE IF point = "guard" THEN "snapshot"
    ELSE IF point = "company" /\ k = "branch" THEN "registration"
    ELSE IF point = "write" THEN "done" ELSE "write"

\* Which requests have a statement.
Makes(k, point) ==
    /\ point \in Points
    /\ point \in {"first", "second", "guard", "snapshot"} => k = "hand_over"
    /\ point = "conversation" => k = "open"
    /\ point = "buyer" => k = "name_buyer"
    /\ point = "refer" => k = "set_branch"
    /\ point = "registration" => k = "branch"
    /\ point \in {"deal", "judge"} => k \in DealKinds
    /\ point = "history" => k \in DealKinds \ {"hand_over"}
    /\ point = "company" => k \notin DealKinds

\* A script is made of its kind's statements, in their order.
ScriptOK(k) ==
    /\ Len(Script[k]) \in DOMAIN Script[k] /\ Script[k][Len(Script[k])] = "done"
    /\ 1 \in DOMAIN Script[k] /\ Script[k][1] = "begin"
    /\ \A n \in DOMAIN Script[k] :
         /\ n \in Nat
         /\ Makes(k, Script[k][n])
         /\ Script[k][n] # "done" =>
              n + 1 \in DOMAIN Script[k] /\ Script[k][n + 1] = After(k, Script[k][n])

(* Each script, taken at its word.                                         *)
LEMMA ScriptSteps == \A k \in Kinds : ScriptOK(k)
<1>1. ScriptOK("open")
    BY DEF ScriptOK, Script, Makes, After, Points, PastJudge, DealKinds
<1>2. ScriptOK("gather")
    BY DEF ScriptOK, Script, Edit, Makes, After, Points, PastJudge, DealKinds
<1>3. ScriptOK("withdraw")
    BY DEF ScriptOK, Script, Edit, Makes, After, Points, PastJudge, DealKinds
<1>4. ScriptOK("hand_over")
    BY DEF ScriptOK, Script, Makes, After, Points, PastJudge, DealKinds
<1>5. ScriptOK("name_buyer")
    BY DEF ScriptOK, Script, Makes, After, Points, PastJudge, DealKinds
<1>6. ScriptOK("set_branch")
    BY DEF ScriptOK, Script, Makes, After, Points, PastJudge, DealKinds
<1>7. ScriptOK("set_terms")
    BY DEF ScriptOK, Script, Edit, Makes, After, Points, PastJudge, DealKinds
<1>8. ScriptOK("file")
    BY DEF ScriptOK, Script, Makes, After, Points, PastJudge, DealKinds
<1>9. ScriptOK("branch")
    BY DEF ScriptOK, Script, Makes, After, Points, PastJudge, DealKinds
<1>10. ScriptOK("decide")
    BY DEF ScriptOK, Script, Makes, After, Points, PastJudge, DealKinds
<1>11. ScriptOK("match")
    BY DEF ScriptOK, Script, Makes, After, Points, PastJudge, DealKinds
<1>12. ScriptOK("screen")
    BY DEF ScriptOK, Script, Makes, After, Points, PastJudge, DealKinds
<1>13. ScriptOK("result")
    BY DEF ScriptOK, Script, Makes, After, Points, PastJudge, DealKinds
<1>14. ScriptOK("contact")
    BY DEF ScriptOK, Script, Makes, After, Points, PastJudge, DealKinds
<1> QED BY <1>1, <1>2, <1>3, <1>4, <1>5, <1>6, <1>7,
        <1>8, <1>9, <1>10, <1>11, <1>12, <1>13, <1>14 DEF Kinds, DealKinds, FactKinds

-----------------------------------------------------------------------------
\* What a request past its judgement went by, and still goes by.
Stays(t) ==
    LET d == OnDeal[t]
    IN  /\ Kind[t] = "open" => ~Life!Opened(d) /\ company[Seller[d]].journey # "LEAD"
        /\ Kind[t] \in DealKinds \ {"open"} => Life!Live(d)
        /\ Kind[t] = "gather" => <<deal[d].stage, "GATHERING_PAPERWORK">> \in Life!PermittedMoves
        /\ Kind[t] = "withdraw" => <<deal[d].stage, "WITHDRAWN">> \in Life!PermittedMoves
        /\ Kind[t] = "hand_over" =>
             <<deal[d].stage, "HANDED_OVER">> \in Life!PermittedMoves /\ deal[d].buyer # NoCompany
        /\ Kind[t] = "name_buyer" => deal[d].buyer = NoCompany /\ About[t] # Seller[d]
        /\ Kind[t] = "set_branch" => (Through[t] # NoBranch => Owner[Through[t]] = Seller[d])

HoldsDeal(t) ==
    At(t) \in PastJudge \union {"judge"} /\ Kind[t] \in DealKinds
        => <<OnDeal[t], "UPDATE">> \in held[t]
StillJudged(t) == At(t) \in PastJudge /\ Kind[t] \in DealKinds => Stays(t)

\* A flag, a decision or a ruling is alone on its company; a handover shares both.
HoldsCompany(t) ==
    At(t) \in {"registration", "write"} /\ Kind[t] \in {"decide", "match", "branch"}
        => <<Subject(t), "UPDATE">> \in held[t]
HoldsParties(t) ==
    Kind[t] = "hand_over" =>
        /\ At(t) \in {"second", "guard", "snapshot", "write"} =>
             <<FirstParty(OnDeal[t]), "SHARE">> \in held[t]
        /\ At(t) \in {"guard", "snapshot", "write"} =>
             <<SecondParty(OnDeal[t]), "SHARE">> \in held[t]

\* What the guard read stands until the commit, and so does the snapshot.
Stands(t) ==
    Kind[t] = "hand_over" =>
        /\ At(t) \in {"snapshot", "write"} => Life!HandoverStands(OnDeal[t])
        /\ At(t) = "write" => taken[t].given = Life!Offered(OnDeal[t])

\* The locks of those that wait: none before the first, and no more than these.
HoldsOnly(t) ==
    /\ At(t) \in Unlocked => held[t] = {}
    /\ Kind[t] = "hand_over" =>
         held[t] \subseteq {<<OnDeal[t], "UPDATE">>} \union (Companies \X {"SHARE"})
    /\ Kind[t] = "open" /\ At(t) \in {"judge", "history", "conversation"} =>
         held[t] \subseteq {<<OnDeal[t], "UPDATE">>, <<Seller[OnDeal[t]], "KEY SHARE">>}

RequestOK(t) ==
    /\ HoldsDeal(t)
    /\ StillJudged(t)
    /\ HoldsCompany(t)
    /\ HoldsParties(t)
    /\ Stands(t)
    /\ HoldsOnly(t)

HandInv ==
    /\ TypeOK
    /\ LocksExclude
    /\ HandedOverAsSnapshotted
    /\ \A t \in Txns : RequestOK(t)

Request(t) == Begin(t) \/ Step(t) \/ Rollback(t)

-----------------------------------------------------------------------------
(* Where a request is.                                                     *)
LEMMA AtPoint ==
    ASSUME HandoverAssumption, TypeOK, NEW t \in Txns
    PROVE  Makes(Kind[t], At(t))
BY ScriptSteps DEF HandoverAssumption, TypeOK, At, ScriptOK

(* It goes on to the next statement, or to its end; the others stay.       *)
LEMMA NextPoint ==
    ASSUME HandoverAssumption, TypeOK, NEW t \in Txns
    PROVE  /\ Advance(t) /\ At(t) # "done" =>
                /\ At(t)' = After(Kind[t], At(t))
                /\ pc' \in [Txns -> Nat] /\ pc'[t] \in DOMAIN Script[Kind[t]]
                /\ \A u \in Txns \ {t} : pc'[u] = pc[u]
           /\ End(t) =>
                /\ At(t)' = "done" /\ held'[t] = {}
                /\ pc' \in [Txns -> Nat] /\ pc'[t] \in DOMAIN Script[Kind[t]]
                /\ \A u \in Txns \ {t} : pc'[u] = pc[u] /\ held'[u] = held[u]
<1>1. ScriptOK(Kind[t])
    BY ScriptSteps DEF HandoverAssumption
<1>2. pc \in [Txns -> Nat] /\ pc[t] \in DOMAIN Script[Kind[t]] /\ held \in [Txns -> SUBSET Locks]
    BY DEF TypeOK
<1>3. ASSUME Advance(t), At(t) # "done"
      PROVE  /\ At(t)' = After(Kind[t], At(t))
             /\ pc' \in [Txns -> Nat] /\ pc'[t] \in DOMAIN Script[Kind[t]]
             /\ \A u \in Txns \ {t} : pc'[u] = pc[u]
    <2>1. pc[t] + 1 \in DOMAIN Script[Kind[t]]
          /\ Script[Kind[t]][pc[t] + 1] = After(Kind[t], At(t))
        BY <1>1, <1>2, <1>3 DEF ScriptOK, At
    <2>2. pc' = [pc EXCEPT ![t] = pc[t] + 1]
        BY <1>3 DEF Advance
    <2> QED BY <1>2, <2>1, <2>2 DEF At
<1>4. ASSUME End(t)
      PROVE  /\ At(t)' = "done" /\ held'[t] = {}
             /\ pc' \in [Txns -> Nat] /\ pc'[t] \in DOMAIN Script[Kind[t]]
             /\ \A u \in Txns \ {t} : pc'[u] = pc[u] /\ held'[u] = held[u]
    <2>1. Len(Script[Kind[t]]) \in Nat
        BY <1>1 DEF ScriptOK
    <2> QED BY <1>1, <1>2, <1>4, <2>1 DEF End, ReleaseAll, ScriptOK, At
<1> QED BY <1>3, <1>4

(* A handover's parties are the seller and the buyer, in either order.     *)
LEMMA Parties ==
    ASSUME NEW d
    PROVE  \/ FirstParty(d) = Seller[d] /\ SecondParty(d) = deal[d].buyer
           \/ FirstParty(d) = deal[d].buyer /\ SecondParty(d) = Seller[d]
BY DEF FirstParty, SecondParty

(* The lock each statement waits for.                                      *)
LEMMA WantedIs ==
    ASSUME NEW t \in Txns, NEW lock \in Wanted(t)
    PROVE  \/ At(t) = "deal" /\ lock = <<OnDeal[t], "UPDATE">>
           \/ At(t) = "history" /\ lock = <<Seller[OnDeal[t]], "KEY SHARE">>
           \/ At(t) = "conversation" /\ lock = <<Seller[OnDeal[t]], "UPDATE">>
           \/ At(t) = "first" /\ lock = <<FirstParty(OnDeal[t]), "SHARE">>
           \/ At(t) = "second" /\ lock = <<SecondParty(OnDeal[t]), "SHARE">>
           \/ At(t) = "buyer" /\ lock = <<About[t], "KEY SHARE">>
           \/ At(t) = "company" /\ lock = <<Subject(t), CompanyMode(t)>>
           \/ At(t) = "registration" /\ lock = <<Through[t], "UPDATE">>
           \/ At(t) = "refer" /\ lock = <<Seller[OnDeal[t]], "KEY SHARE">>
           \/ At(t) = "refer" /\ Through[t] # NoBranch /\ lock = <<Through[t], "KEY SHARE">>
BY DEF Wanted, DealMode, PartyMode

(* What a request waits for is a lock there is.                            *)
LEMMA WantedAreLocks ==
    ASSUME DealAssumption, HandoverAssumption, HandInv, NEW t \in Txns, NEW lock \in Wanted(t)
    PROVE  lock \in Locks
<1>1. /\ OnDeal[t] \in Rows /\ Seller[OnDeal[t]] \in Companies /\ About[t] \in Companies
      /\ Subject(t) \in Companies
      /\ Companies \subseteq Rows
    BY DEF DealAssumption, HandoverAssumption, Subject
<1>2. Makes(Kind[t], At(t)) /\ RequestOK(t)
    BY AtPoint DEF HandInv
<1>3. At(t) \in {"first", "second"} =>
        FirstParty(OnDeal[t]) \in Companies /\ SecondParty(OnDeal[t]) \in Companies
    <2>1. At(t) \in {"first", "second"} => Kind[t] = "hand_over" /\ Stays(t)
        BY <1>2 DEF Makes, RequestOK, StillJudged, PastJudge, DealKinds
    <2>2. deal[OnDeal[t]].buyer \in Companies \union {NoCompany}
        BY DEF HandInv, TypeOK, DealRows, HandoverAssumption
    <2>3. At(t) \in {"first", "second"} => deal[OnDeal[t]].buyer \in Companies
        BY <2>1, <2>2 DEF Stays
    <2>4. \/ FirstParty(OnDeal[t]) = Seller[OnDeal[t]] /\ SecondParty(OnDeal[t]) = deal[OnDeal[t]].buyer
          \/ FirstParty(OnDeal[t]) = deal[OnDeal[t]].buyer /\ SecondParty(OnDeal[t]) = Seller[OnDeal[t]]
        BY Parties
    <2> QED BY <1>1, <2>3, <2>4
<1>4. At(t) = "registration" \/ Through[t] # NoBranch => Through[t] \in Rows
    BY <1>2 DEF Makes, HandoverAssumption
<1>5. {"KEY SHARE", "SHARE", "UPDATE", CompanyMode(t)} \subseteq Modes
    BY DEF CompanyMode, Modes
<1>6. \E row \in Rows, mode \in Modes : lock = <<row, mode>>
    BY <1>1, <1>3, <1>4, <1>5, WantedIs
<1> QED BY <1>6 DEF Locks

-----------------------------------------------------------------------------
(* A step is one request's: the others stay where they are, with the locks *)
(* and the snapshot they have.                                             *)
LEMMA Frame ==
    ASSUME DealAssumption, HandoverAssumption, HandInv, NEW t \in Txns, Request(t)
    PROVE  /\ pc' \in [Txns -> Nat] /\ \A u \in Txns : pc'[u] \in DOMAIN Script[Kind[u]]
           /\ held' \in [Txns -> SUBSET Locks] /\ LocksExclude'
           /\ \A u \in Txns \ {t} :
                At(u)' = At(u) /\ held'[u] = held[u] /\ taken'[u] = taken[u]
<1>0. TypeOK /\ LocksExclude /\ Makes(Kind[t], At(t))
    BY AtPoint DEF HandInv
<1>1. pc \in [Txns -> Nat] /\ \A u \in Txns : pc[u] \in DOMAIN Script[Kind[u]]
    BY <1>0 DEF TypeOK
<1>2. held \in [Txns -> SUBSET Locks] /\ taken \in [Txns -> [given : Given, at : Nat]]
    BY <1>0 DEF TypeOK
<1>3. CASE End(t) /\ UNCHANGED taken
    <2>1. held' \in [Txns -> SUBSET Locks] /\ LocksExclude'
        BY <1>0, <1>2, <1>3, ReleaseExcludes DEF End
    <2> QED BY <1>0, <1>1, <1>3, <2>1, NextPoint DEF At
<1>4. CASE Advance(t) /\ At(t) # "done" /\ UNCHANGED held /\ \A u \in Txns \ {t} : taken'[u] = taken[u]
    <2>1. LocksExclude'
        BY <1>0, <1>4 DEF LocksExclude
    <2> QED BY <1>0, <1>1, <1>2, <1>4, <2>1, NextPoint DEF At
<1>5. CASE TakeLock(t)
    <2>1. PICK lock \in Wanted(t) :
             /\ Acquire(t, lock)
             /\ IF Wanted(t) = {lock} THEN Advance(t) ELSE UNCHANGED pc
        BY <1>5 DEF TakeLock
    <2>2. held' \in [Txns -> SUBSET Locks] /\ LocksExclude'
        BY <1>0, <1>2, <2>1, WantedAreLocks, AcquireExcludes
    <2>3. \A u \in Txns \ {t} : held'[u] = held[u]
        BY <1>2, <2>1 DEF Acquire
    <2>4. At(t) # "done"
        BY DEF Wanted
    <2>5. UNCHANGED taken
        BY <1>5 DEF TakeLock
    <2> QED BY <1>0, <1>1, <2>1, <2>2, <2>3, <2>4, <2>5, NextPoint DEF At
<1>6. CASE Begin(t) \/ Judge(t) \/ Snapshot(t)
    BY <1>2, <1>3, <1>4, <1>6 DEF Begin, Judge, Snapshot
<1> QED BY <1>3, <1>5, <1>6 DEF Request, Step, Write, Rollback

(* What is written of a company, by each kind of request.                  *)
LEMMA FactsAre ==
    ASSUME NEW t, NEW row \in Facts(t)
    PROVE  LET before == company[About[t]]
           IN  \/ Kind[t] = "decide" /\ row \in Cleared(before)
               \/ Kind[t] = "decide" /\ row = [before EXCEPT !.gauge = "FLAGGED", !.expires = 0]
               \/ Kind[t] = "match" /\ row = [before EXCEPT !.hit = TRUE]
               \/ Kind[t] = "screen" /\ row = [before EXCEPT !.hit = FALSE]
               \/ Kind[t] = "result" /\ \E v \in {"PASSED", "FAILED", "PENDING"} :
                                          row = [before EXCEPT !.verdict = v]
               \/ Kind[t] = "contact" /\ row = [before EXCEPT !.contact = FALSE]
BY DEF Facts

(* Only a write changes a row, and its request holds it.                   *)
LEMMA WriterHolds ==
    ASSUME DealAssumption, HandoverAssumption, HandInv, NEW t \in Txns, Request(t)
    PROVE  /\ \A d \in Deals : deal'[d] # deal[d] =>
                d = OnDeal[t] /\ <<d, "UPDATE">> \in held[t] /\ Stays(t) /\ Kind[t] \in DealKinds
           /\ \A c \in Companies :
                /\ company'[c].journey # company[c].journey =>
                     company[c].journey = "PROSPECT" /\ company'[c].journey = "CUSTOMER"
                /\ company'[c].journey # company[c].journey \/ company'[c].gauge # company[c].gauge =>
                     <<c, "UPDATE">> \in held[t]
           /\ \A b \in Branches : branch'[b] # branch[b] => <<Owner[b], "UPDATE">> \in held[t]
<1>0. TypeOK /\ RequestOK(t) /\ OnDeal[t] \in Deals /\ About[t] \in Companies
      /\ Seller[OnDeal[t]] \in Companies
    BY DEF HandInv, HandoverAssumption, DealAssumption
<1>1. CASE UNCHANGED rows
    BY <1>1 DEF rows
<1>2. CASE Write(t)
    <2>1. At(t) = "write"
        BY <1>2 DEF Write
    <2>2. Kind[t] \in DealKinds => <<OnDeal[t], "UPDATE">> \in held[t] /\ Stays(t)
        BY <1>0, <2>1 DEF RequestOK, HoldsDeal, StillJudged, PastJudge
    <2>3. Kind[t] \in {"decide", "branch"} => <<Subject(t), "UPDATE">> \in held[t]
        BY <1>0, <2>1 DEF RequestOK, HoldsCompany
    <2>4. deal \in [Deals -> DealRows] /\ company \in [Companies -> CompanyRows]
          /\ branch \in [Branches -> [active : BOOLEAN, flagged : BOOLEAN]]
        BY <1>0 DEF TypeOK
    <2>5. CASE InsertDeal(t) /\ UNCHANGED branch
        <3>1. Kind[t] \in DealKinds /\ deal' = [deal EXCEPT ![OnDeal[t]] = Life!NewDeal]
              /\ company' = [company EXCEPT ![Seller[OnDeal[t]]] =
                              [company[Seller[OnDeal[t]]] EXCEPT !.readyNow = TRUE]]
            BY <2>5 DEF InsertDeal, DealKinds
        <3>2. \A c \in Companies :
                company'[c].journey = company[c].journey /\ company'[c].gauge = company[c].gauge
            BY <2>4, <3>1 DEF CompanyRows
        <3> QED BY <1>0, <2>2, <2>4, <2>5, <3>1, <3>2
    <2>6. CASE (MoveStage(t) \/ RecordHandover(t) \/ SetBuyer(t) \/ SetBranch(t)
                  \/ ChangeTerms(t) \/ InsertDocument(t)) /\ UNCHANGED branch
        BY <1>0, <2>2, <2>4, <2>6 DEF MoveStage, RecordHandover, SetBuyer, SetBranch, ChangeTerms,
            InsertDocument, DealKinds
    <2>7. CASE WriteFacts(t) /\ UNCHANGED branch
        <3>1. PICK row \in Facts(t) : company' = [company EXCEPT ![About[t]] = row]
            BY <2>7 DEF WriteFacts
        <3>2. /\ row.journey # company[About[t]].journey =>
                    company[About[t]].journey = "PROSPECT" /\ row.journey = "CUSTOMER"
              /\ row.journey # company[About[t]].journey \/ row.gauge # company[About[t]].gauge =>
                    Kind[t] = "decide"
            <4> DEFINE before == company[About[t]]
            <4>1. before \in CompanyRows
                BY <1>0, <2>4
            <4>2. CASE Kind[t] = "decide"
                <5>1. row \in Cleared(before) \/ row.journey = before.journey
                    <6>1. \/ row \in Cleared(before)
                          \/ row = [before EXCEPT !.gauge = "FLAGGED", !.expires = 0]
                        BY <4>2, FactsAre
                    <6> QED BY <4>1, <6>1 DEF CompanyRows
                <5>2. ASSUME row \in Cleared(before), row.journey # before.journey
                      PROVE  before.journey = "PROSPECT" /\ row.journey = "CUSTOMER"
                    <6>1. PICK j \in {before.journey} \union
                                      (IF before.journey = "PROSPECT" THEN {"CUSTOMER"} ELSE {}) :
                             row = [before EXCEPT !.gauge = "CLEAR", !.expires = now + Validity,
                                                  !.journey = j]
                        BY <5>2 DEF Cleared
                    <6>2. row.journey = j
                        BY <4>1, <6>1 DEF CompanyRows
                    <6> QED BY <5>2, <6>2
                <5> QED BY <4>2, <5>1, <5>2
            <4>3. CASE Kind[t] # "decide"
                <5>1. row.journey = before.journey /\ row.gauge = before.gauge
                    <6>1. \/ row = [before EXCEPT !.hit = TRUE]
                          \/ row = [before EXCEPT !.hit = FALSE]
                          \/ \E v \in {"PASSED", "FAILED", "PENDING"} : row = [before EXCEPT !.verdict = v]
                          \/ row = [before EXCEPT !.contact = FALSE]
                        BY <4>3, FactsAre
                    <6> QED BY <4>1, <6>1 DEF CompanyRows
                <5> QED BY <4>3, <5>1
            <4> QED BY <4>2, <4>3
        <3>3. Kind[t] = "decide" => Subject(t) = About[t]
            BY DEF Subject
        <3>4. \A c \in Companies : company'[c] = IF c = About[t] THEN row ELSE company[c]
            BY <2>4, <3>1
        <3>5. UNCHANGED <<deal, branch>>
            BY <2>7 DEF WriteFacts
        <3>6. ASSUME NEW c \in Companies
              PROVE  /\ company'[c].journey # company[c].journey =>
                          company[c].journey = "PROSPECT" /\ company'[c].journey = "CUSTOMER"
                     /\ company'[c].journey # company[c].journey \/ company'[c].gauge # company[c].gauge =>
                          <<c, "UPDATE">> \in held[t]
            <4>1. CASE c = About[t] BY <2>3, <3>2, <3>3, <3>4, <4>1
            <4>2. CASE c # About[t] BY <3>4, <4>2
            <4> QED BY <4>1, <4>2
        <3> QED BY <3>5, <3>6
    <2>8. CASE WriteBranch(t)
        <3>1. Kind[t] = "branch" /\ Subject(t) = Owner[Through[t]] /\ Through[t] \in Branches
            BY <2>8 DEF WriteBranch, Subject, HandoverAssumption
        <3> QED BY <2>3, <2>4, <2>8, <3>1 DEF WriteBranch
    <2> QED BY <1>2, <2>5, <2>6, <2>7, <2>8 DEF Write
<1> QED BY <1>1, <1>2 DEF Request, Begin, Step, TakeLock, Judge, Snapshot, Rollback

-----------------------------------------------------------------------------
(* What the guard went by stands while both parties are shared.            *)
LEMMA GuardStands ==
    ASSUME DealAssumption, HandoverAssumption, HandInv, NEW d \in Deals,
           deal'[d] = deal[d],
           company'[Seller[d]].journey = company[Seller[d]].journey,
           company'[Seller[d]].gauge = company[Seller[d]].gauge,
           \A b \in Branches : Owner[b] = Seller[d] => branch'[b] = branch[b],
           Life!HandoverStands(d)
    PROVE  Life!HandoverStands(d)'
<1>1. Life!BranchSound(d)'
    <2>1. CASE deal[d].branch = NoBranch
        BY <2>1 DEF Life!HandoverStands, Life!BranchSound
    <2>2. CASE deal[d].branch # NoBranch
        <3>1. deal[d].branch \in Branches /\ Owner[deal[d].branch] = Seller[d]
            BY <2>2 DEF HandInv, TypeOK, DealRows
        <3> QED BY <2>2, <3>1 DEF Life!HandoverStands, Life!BranchSound
    <2> QED BY <2>1, <2>2
<1> QED BY <1>1 DEF Life!HandoverStands

(* A step of another request moves nothing this one goes by.               *)
LEMMA OthersKeep ==
    ASSUME DealAssumption, HandoverAssumption, HandInv, NEW t \in Txns, Request(t),
           NEW u \in Txns, u # t
    PROVE  RequestOK(u)'
<1>0. RequestOK(u) /\ TypeOK /\ OnDeal[u] \in Deals /\ Seller[OnDeal[u]] \in Companies
    BY DEF HandInv, HandoverAssumption, DealAssumption
<1>1. At(u)' = At(u) /\ held'[u] = held[u] /\ taken'[u] = taken[u]
    BY Frame
<1>2. \A row \in Rows, m \in Modes :
        <<row, "UPDATE">> \in held[t] => <<row, m>> \notin held[u]
    BY DEF HandInv, LocksExclude, Conflict, Modes
<1>3. OnDeal[u] \in Rows /\ Seller[OnDeal[u]] \in Rows
    BY <1>0 DEF HandoverAssumption
<1>4. HoldsDeal(u)' /\ HoldsCompany(u)' /\ HoldsOnly(u)'
    BY <1>0, <1>1 DEF RequestOK, HoldsDeal, HoldsCompany, HoldsOnly, Subject
<1>5. CASE ~(Kind[u] \in DealKinds /\ At(u) \in PastJudge)
    BY <1>1, <1>4, <1>5 DEF RequestOK, StillJudged, HoldsParties, Stands, PastJudge, DealKinds
<1>6. CASE Kind[u] \in DealKinds /\ At(u) \in PastJudge
    <2>1. deal'[OnDeal[u]] = deal[OnDeal[u]]
        <3>1. <<OnDeal[u], "UPDATE">> \in held[u]
            BY <1>0, <1>6 DEF RequestOK, HoldsDeal
        <3> QED BY <1>0, <1>2, <1>3, <3>1, WriterHolds DEF Modes
    <2>2. company[Seller[OnDeal[u]]].journey # "LEAD" => company'[Seller[OnDeal[u]]].journey # "LEAD"
        BY <1>0, WriterHolds
    <2>3. Stays(u)'
        BY <1>0, <1>6, <2>1, <2>2 DEF RequestOK, StillJudged, Stays, Life!Opened, Life!Live
    <2>4. FirstParty(OnDeal[u])' = FirstParty(OnDeal[u])
          /\ SecondParty(OnDeal[u])' = SecondParty(OnDeal[u])
        BY <2>1 DEF FirstParty, SecondParty
    <2>5. HoldsParties(u)'
        BY <1>0, <1>1, <2>4 DEF RequestOK, HoldsParties
    <2>6. ASSUME Kind[u] = "hand_over", At(u) \in {"snapshot", "write"}
          PROVE  Life!HandoverStands(OnDeal[u])'
        <3>1. <<Seller[OnDeal[u]], "SHARE">> \in held[u]
            BY <1>0, <2>6, Parties DEF RequestOK, HoldsParties
        <3>2. <<Seller[OnDeal[u]], "UPDATE">> \notin held[t]
            BY <1>2, <1>3, <3>1 DEF Modes
        <3>3. Life!HandoverStands(OnDeal[u])
            BY <1>0, <2>6 DEF RequestOK, Stands
        <3> QED BY <1>0, <2>1, <3>2, <3>3, GuardStands, WriterHolds
    <2>7. Stands(u)'
        BY <1>0, <1>1, <2>1, <2>6 DEF RequestOK, Stands, Life!Offered
    <2> QED BY <1>1, <1>4, <2>3, <2>5, <2>7 DEF RequestOK, StillJudged
<1> QED BY <1>5, <1>6

(* Each statement gives a request what it is to hold at the next one.      *)
LEMMA LockKeeps ==
    ASSUME DealAssumption, HandoverAssumption, HandInv, NEW t \in Txns, TakeLock(t)
    PROVE  RequestOK(t)'
<1>0. /\ TypeOK /\ RequestOK(t) /\ Makes(Kind[t], At(t))
      /\ UNCHANGED <<deal, company, branch, taken>>
    BY AtPoint DEF HandInv, TakeLock, rows
<1>1. PICK lock \in Wanted(t) :
         /\ Acquire(t, lock)
         /\ IF Wanted(t) = {lock} THEN Advance(t) ELSE UNCHANGED pc
    BY DEF TakeLock
<1>2. held'[t] = held[t] \union {lock}
    BY <1>0, <1>1 DEF Acquire, TypeOK
<1>3. /\ Stays(t)' = Stays(t)
      /\ FirstParty(OnDeal[t])' = FirstParty(OnDeal[t])
      /\ SecondParty(OnDeal[t])' = SecondParty(OnDeal[t])
      /\ Life!HandoverStands(OnDeal[t])' = Life!HandoverStands(OnDeal[t])
      /\ Life!Offered(OnDeal[t])' = Life!Offered(OnDeal[t])
      /\ taken'[t] = taken[t]
    BY <1>0 DEF Stays, Life!Opened, Life!Live, FirstParty, SecondParty,
        Life!HandoverStands, Life!BranchSound, Life!Offered
<1>4. CASE At(t) = "refer"
    <2>1. Kind[t] = "set_branch" /\ At(t)' \in {"refer", "write"}
        <3>1. Kind[t] = "set_branch" BY <1>0, <1>4 DEF Makes
        <3>2. UNCHANGED pc => At(t)' = At(t) BY DEF At
        <3> QED BY <1>0, <1>1, <1>4, <3>1, <3>2, NextPoint DEF After
    <2> QED BY <1>0, <1>2, <1>3, <1>4, <2>1 DEF RequestOK, HoldsDeal, StillJudged, HoldsCompany,
            HoldsParties, Stands, HoldsOnly, PastJudge, Unlocked, DealKinds
<1>5. CASE At(t) # "refer"
    <2>1. Wanted(t) = {lock}
        BY <1>1, <1>5 DEF Wanted
    <2>2. At(t)' = After(Kind[t], At(t))
        BY <1>0, <1>1, <2>1, NextPoint DEF Wanted
    <2>3. CASE At(t) = "deal"
        <3>1. At(t)' = "judge" /\ lock = <<OnDeal[t], "UPDATE">> /\ held[t] = {} /\ Kind[t] \in DealKinds
            BY <1>0, <2>2, <2>3, WantedIs DEF After, Makes, RequestOK, HoldsOnly, Unlocked
        <3> QED BY <1>2, <3>1 DEF RequestOK, HoldsDeal, StillJudged, HoldsCompany,
                HoldsParties, Stands, HoldsOnly, PastJudge, Unlocked
    <2>4. CASE At(t) = "history"
        <3>1. Kind[t] \in DealKinds /\ Kind[t] # "hand_over" /\ At(t)' \in {"conversation", "write"}
            BY <1>0, <2>2, <2>4 DEF After, Makes, DealKinds
        <3>2. lock = <<Seller[OnDeal[t]], "KEY SHARE">>
            BY <2>4, WantedIs
        <3> QED BY <1>0, <1>2, <1>3, <2>4, <3>1, <3>2 DEF RequestOK, HoldsDeal, StillJudged,
                HoldsCompany, HoldsParties, Stands, HoldsOnly, PastJudge, Unlocked, DealKinds
    <2>5. CASE At(t) \in {"conversation", "buyer"}
        <3>1. Kind[t] \in {"open", "name_buyer"} /\ At(t)' \in {"write", "history"}
              /\ (Kind[t] = "open" => At(t)' = "write")
            BY <1>0, <2>2, <2>5 DEF After, Makes
        <3> QED BY <1>0, <1>2, <1>3, <2>5, <3>1 DEF RequestOK, HoldsDeal, StillJudged,
                HoldsCompany, HoldsParties, Stands, HoldsOnly, PastJudge, Unlocked, DealKinds
    <2>6. CASE At(t) \in {"first", "second"}
        <3>1. Kind[t] = "hand_over"
            BY <1>0, <2>6 DEF Makes
        <3>2. \/ At(t) = "first" /\ At(t)' = "second" /\ lock = <<FirstParty(OnDeal[t]), "SHARE">>
              \/ At(t) = "second" /\ At(t)' = "guard" /\ lock = <<SecondParty(OnDeal[t]), "SHARE">>
            BY <2>2, <2>6, WantedIs DEF After
        <3>3. lock \in Companies \X {"SHARE"}
            <4>1. lock \in Locks BY WantedAreLocks
            <4>2. Stays(t) BY <1>0, <2>6, <3>1 DEF RequestOK, StillJudged, PastJudge, DealKinds
            <4>3. FirstParty(OnDeal[t]) \in Companies /\ SecondParty(OnDeal[t]) \in Companies
                <5>1. Seller[OnDeal[t]] \in Companies
                      /\ deal[OnDeal[t]].buyer \in Companies \union {NoCompany}
                    BY <1>0 DEF DealAssumption, HandoverAssumption, TypeOK, DealRows
                <5>2. deal[OnDeal[t]].buyer \in Companies
                    BY <3>1, <4>2, <5>1 DEF Stays
                <5> QED BY <5>1, <5>2, Parties
            <4> QED BY <3>2, <4>3
        <3> QED BY <1>0, <1>2, <1>3, <2>6, <3>1, <3>2, <3>3 DEF RequestOK, HoldsDeal, StillJudged,
                HoldsCompany, HoldsParties, Stands, HoldsOnly, PastJudge, Unlocked, DealKinds
    <2>7. CASE At(t) = "company"
        <3>1. Kind[t] \notin DealKinds /\ At(t)' \in {"registration", "write"}
              /\ lock = <<Subject(t), CompanyMode(t)>>
            BY <1>0, <2>2, <2>7, WantedIs DEF After, Makes
        <3>2. Kind[t] \in {"decide", "match", "branch"} => lock = <<Subject(t), "UPDATE">>
            BY <3>1 DEF CompanyMode
        <3> QED BY <1>2, <3>1, <3>2 DEF RequestOK, HoldsDeal, StillJudged, HoldsCompany,
                HoldsParties, Stands, HoldsOnly, PastJudge, Unlocked, DealKinds, Subject
    <2>8. CASE At(t) = "registration"
        <3>1. Kind[t] = "branch" /\ At(t)' = "write"
            BY <1>0, <2>2, <2>8 DEF After, Makes
        <3> QED BY <1>0, <1>2, <2>8, <3>1 DEF RequestOK, HoldsDeal, StillJudged, HoldsCompany,
                HoldsParties, Stands, HoldsOnly, PastJudge, Unlocked, DealKinds, Subject
    <2> QED BY <1>1, <1>5, <2>3, <2>4, <2>5, <2>6, <2>7, <2>8 DEF Wanted
<1> QED BY <1>4, <1>5

(* A request's own step gives it what it holds and goes by at the next.    *)
LEMMA OwnKeeps ==
    ASSUME DealAssumption, HandoverAssumption, HandInv, NEW t \in Txns, Request(t)
    PROVE  RequestOK(t)'
<1>0. TypeOK /\ RequestOK(t) /\ Makes(Kind[t], At(t))
    BY AtPoint DEF HandInv
<1>1. CASE End(t)
    <2>1. At(t)' = "done" /\ held'[t] = {}
        BY <1>0, <1>1, NextPoint
    <2> QED BY <2>1 DEF RequestOK, HoldsDeal, StillJudged, HoldsCompany, HoldsParties, Stands,
            HoldsOnly, PastJudge
<1>2. CASE Begin(t)
    <2>1. At(t)' \in {"deal", "company"} /\ held' = held /\ held[t] = {}
        BY <1>0, <1>2, NextPoint DEF Begin, After, RequestOK, HoldsOnly, Unlocked
    <2> QED BY <2>1 DEF RequestOK, HoldsDeal, StillJudged, HoldsCompany, HoldsParties, Stands,
            HoldsOnly, PastJudge
<1>3. CASE Snapshot(t)
    <2>1. Kind[t] = "hand_over" /\ At(t) = "snapshot" /\ At(t)' = "write"
          /\ UNCHANGED <<deal, company, branch, held>>
        BY <1>0, <1>3, NextPoint DEF Snapshot, After, Makes, rows
    <2>2. taken'[t].given = Life!Offered(OnDeal[t])
        BY <1>0, <1>3 DEF Snapshot, TypeOK
    <2>3. Stays(t)' /\ Life!HandoverStands(OnDeal[t])' /\ Life!Offered(OnDeal[t])' = Life!Offered(OnDeal[t])
        <3>1. Stays(t) /\ Life!HandoverStands(OnDeal[t])
            BY <1>0, <2>1 DEF RequestOK, StillJudged, Stands, PastJudge, DealKinds
        <3> QED BY <2>1, <3>1 DEF Stays, Life!Opened, Life!Live, Life!HandoverStands,
                Life!BranchSound, Life!Offered
    <2> QED BY <1>0, <2>1, <2>2, <2>3 DEF RequestOK, HoldsDeal, StillJudged, HoldsCompany,
            HoldsParties, Stands, HoldsOnly, PastJudge, DealKinds, Unlocked, FirstParty, SecondParty
<1>4. CASE At(t) = "judge" /\ Allowed(t) /\ Advance(t) /\ UNCHANGED <<rows, taken, held>>
    <2>1. /\ Kind[t] \in DealKinds
          /\ At(t)' \in {"history", "buyer", "refer", "first", "write"}
          /\ At(t)' = "write" => Kind[t] = "file"
          /\ At(t)' = "first" => Kind[t] = "hand_over"
          /\ Kind[t] = "hand_over" => At(t)' = "first"
        BY <1>0, <1>4, NextPoint DEF After, Makes
    <2>2. Stays(t)
        BY <1>4 DEF Allowed, Stays, Life!Live, Life!Opened, Life!Closed, Life!PermittedMoves, DealKinds
    <2>3. Stays(t)'
        BY <1>4, <2>2 DEF rows, Stays, Life!Opened, Life!Live
    <2> QED BY <1>0, <1>4, <2>1, <2>3 DEF RequestOK, HoldsDeal, StillJudged, HoldsCompany,
            HoldsParties, Stands, HoldsOnly, PastJudge, Unlocked
<1>5. CASE At(t) = "guard" /\ Unblocked(OnDeal[t]) /\ Advance(t) /\ UNCHANGED <<rows, taken, held>>
    <2>1. Kind[t] = "hand_over" /\ At(t)' = "snapshot"
        BY <1>0, <1>5, NextPoint DEF After, Makes
    <2>2. Stays(t)' /\ Life!HandoverStands(OnDeal[t])'
        <3>1. Stays(t) /\ Life!HandoverStands(OnDeal[t])
            BY <1>0, <1>5, <2>1 DEF RequestOK, StillJudged, Unblocked, PastJudge, DealKinds
        <3> QED BY <1>5, <3>1 DEF rows, Stays, Life!Opened, Life!Live, Life!HandoverStands,
                Life!BranchSound
    <2> QED BY <1>0, <1>5, <2>1, <2>2 DEF RequestOK, HoldsDeal, StillJudged, HoldsCompany,
            HoldsParties, Stands, HoldsOnly, PastJudge, DealKinds, Unlocked, FirstParty, SecondParty,
            rows
<1>6. CASE TakeLock(t)
    BY <1>6, LockKeeps
<1> QED BY <1>1, <1>2, <1>3, <1>4, <1>5, <1>6 DEF Request, Step, Judge, Write, Rollback

-----------------------------------------------------------------------------
(* What the database and the snapshot hold a deal's row to.                *)
DealOK(d, row) ==
    /\ row \in DealRows
    /\ row.buyer # Seller[d]
    /\ row.branch # NoBranch => Owner[row.branch] = Seller[d]
    /\ row.stage = "HANDED_OVER" <=> row.given # Life!NothingGiven
    /\ row.stage = "HANDED_OVER" =>
         row.given = [buyer |-> row.buyer, papers |-> row.papers, terms |-> row.terms]

(* Every write leaves such rows, the handover's with what it gave.         *)
LEMMA WriteKeepsDeals ==
    ASSUME DealAssumption, HandoverAssumption, HandInv, NEW t \in Txns, Write(t)
    PROVE  deal' \in [Deals -> DealRows] /\ \A d \in Deals : DealOK(d, deal'[d])
<1> DEFINE d == OnDeal[t]
           before == deal[d]
<1>0. /\ \A e \in Deals : DealOK(e, deal[e])
      /\ deal \in [Deals -> DealRows]
      /\ d \in Deals /\ Seller[d] \in Companies /\ About[t] \in Companies
      /\ NoCompany \notin Companies /\ NoBranch \notin Branches
      /\ Through[t] \in Branches \union {NoBranch}
    BY DEF HandInv, HandedOverAsSnapshotted, TypeOK, DealOK, Life!Offered, HandoverAssumption,
       DealAssumption
<1>1. At(t) = "write" /\ RequestOK(t)
    BY DEF Write, HandInv
<1>2. Kind[t] \in DealKinds => Stays(t)
    BY <1>1 DEF RequestOK, StillJudged, PastJudge
<1>3. ASSUME NEW row, deal' = [deal EXCEPT ![d] = row], DealOK(d, row)
      PROVE  deal' \in [Deals -> DealRows] /\ \A e \in Deals : DealOK(e, deal'[e])
    BY <1>0, <1>3 DEF DealOK
<1>4. CASE UNCHANGED deal
    BY <1>0, <1>4
<1>5. CASE InsertDeal(t)
    <2>1. DealOK(d, Life!NewDeal)
        BY <1>0 DEF DealOK, Life!NewDeal, Life!DealWith, Life!NothingGiven, DealRows, Given, Life!Stages
    <2> QED BY <1>3, <1>5, <2>1 DEF InsertDeal
<1>6. ASSUME Kind[t] \in DealKinds \ {"open"}
      PROVE  before.stage \notin {"NONE", "HANDED_OVER", "WITHDRAWN"} /\ before.given = Life!NothingGiven
             /\ before \in DealRows /\ DealOK(d, before)
    BY <1>0, <1>2, <1>6 DEF Stays, Life!Live, Life!Opened, Life!Closed, DealOK
<1>7. CASE MoveStage(t)
    <2>1. PICK stage \in {"GATHERING_PAPERWORK", "WITHDRAWN"} :
             deal' = [deal EXCEPT ![d] = [before EXCEPT !.stage = stage]]
        BY <1>7 DEF MoveStage
    <2>2. Kind[t] \in DealKinds \ {"open"}
        BY <1>7 DEF MoveStage, DealKinds
    <2>3. DealOK(d, [before EXCEPT !.stage = stage])
        BY <1>6, <2>2 DEF DealOK, DealRows, Life!Stages
    <2> QED BY <1>3, <2>1, <2>3
<1>8. CASE RecordHandover(t)
    <2>1. Kind[t] = "hand_over" /\ Kind[t] \in DealKinds \ {"open"}
        BY <1>8 DEF RecordHandover, DealKinds
    <2>2. taken[t].given = Life!Offered(d) /\ before.papers > 0 /\ taken[t].at \in Nat
          /\ before.buyer # NoCompany
        BY <1>1, <1>2, <2>1 DEF RequestOK, Stands, Life!HandoverStands, HandInv, TypeOK, Stays
    <2> DEFINE offered == Life!Offered(d)
               after == [before EXCEPT !.stage = "HANDED_OVER", !.given = taken[t].given,
                                       !.handedAt = taken[t].at]
    <2>3. offered = [buyer |-> before.buyer, papers |-> before.papers, terms |-> before.terms]
        BY DEF Life!Offered
    <2>4. before \in DealRows
        BY <1>6, <2>1
    <2>5. offered \in Given /\ offered # Life!NothingGiven
        <3>1. offered.papers > 0 /\ Life!NothingGiven.papers = 0
            BY <2>2, <2>3 DEF Life!NothingGiven
        <3>2. offered \in Given
            BY <2>3, <2>4 DEF DealRows, Given
        <3> QED BY <3>1, <3>2
    <2>6. /\ after.stage = "HANDED_OVER" /\ after.given = offered /\ after.buyer = before.buyer
          /\ after.branch = before.branch /\ after.papers = before.papers
          /\ after.terms = before.terms
          /\ after \in DealRows
        BY <2>2, <2>4, <2>5 DEF DealRows, Life!Stages
    <2>7. DealOK(d, after)
        <3> HIDE DEF after, offered
        <3> QED BY <1>6, <2>1, <2>3, <2>5, <2>6 DEF DealOK
    <2> QED BY <1>3, <1>8, <2>7 DEF RecordHandover
<1>9. CASE SetBuyer(t)
    <2>1. Kind[t] = "name_buyer" /\ Kind[t] \in DealKinds \ {"open"}
        BY <1>9 DEF SetBuyer, DealKinds
    <2>2. DealOK(d, [before EXCEPT !.buyer = About[t]])
        BY <1>0, <1>2, <1>6, <2>1 DEF DealOK, DealRows, Stays
    <2> QED BY <1>3, <1>9, <2>2 DEF SetBuyer
<1>10. CASE SetBranch(t)
    <2>1. Kind[t] = "set_branch" /\ Kind[t] \in DealKinds \ {"open"}
        BY <1>10 DEF SetBranch, DealKinds
    <2>2. DealOK(d, [before EXCEPT !.branch = Through[t]])
        BY <1>0, <1>2, <1>6, <2>1 DEF DealOK, DealRows, Stays
    <2> QED BY <1>3, <1>10, <2>2 DEF SetBranch
<1>11. CASE ChangeTerms(t)
    <2>1. Kind[t] \in DealKinds \ {"open"}
        BY <1>11 DEF ChangeTerms, DealKinds
    <2>2. DealOK(d, [before EXCEPT !.terms = before.terms + 1])
        BY <1>6, <2>1 DEF DealOK, DealRows
    <2> QED BY <1>3, <1>11, <2>2 DEF ChangeTerms
<1>12. CASE InsertDocument(t)
    <2>1. Kind[t] \in DealKinds \ {"open"}
        BY <1>12 DEF InsertDocument, DealKinds
    <2>2. DealOK(d, [before EXCEPT !.papers = before.papers + 1])
        BY <1>6, <2>1 DEF DealOK, DealRows
    <2> QED BY <1>3, <1>12, <2>2 DEF InsertDocument
<1> QED BY <1>4, <1>5, <1>7, <1>8, <1>9, <1>10, <1>11, <1>12 DEF Write, WriteFacts, WriteBranch

(* A company's row, and a branch's, stay rows of their tables.             *)
LEMMA WriteKeepsFacts ==
    ASSUME DealAssumption, HandoverAssumption, HandInv, NEW t \in Txns, Write(t)
    PROVE  /\ company' \in [Companies -> CompanyRows]
           /\ branch' \in [Branches -> [active : BOOLEAN, flagged : BOOLEAN]]
<1>0. /\ company \in [Companies -> CompanyRows]
      /\ branch \in [Branches -> [active : BOOLEAN, flagged : BOOLEAN]]
      /\ About[t] \in Companies /\ Seller[OnDeal[t]] \in Companies
      /\ now \in Nat /\ Validity \in Nat
    BY DEF HandInv, TypeOK, HandoverAssumption, DealAssumption
<1>1. CASE InsertDeal(t) /\ UNCHANGED branch
    <2> DEFINE seller == company[Seller[OnDeal[t]]]
    <2>1. company' = [company EXCEPT ![Seller[OnDeal[t]]] = [seller EXCEPT !.readyNow = TRUE]]
        BY <1>1 DEF InsertDeal
    <2>2. seller \in CompanyRows
        BY <1>0
    <2>3. [seller EXCEPT !.readyNow = TRUE] \in CompanyRows
        BY <2>2 DEF CompanyRows
    <2> QED BY <1>0, <1>1, <2>1, <2>3
<1>2. CASE WriteFacts(t) /\ UNCHANGED branch
    <2> DEFINE before == company[About[t]]
    <2>1. PICK row \in Facts(t) : company' = [company EXCEPT ![About[t]] = row]
        BY <1>2 DEF WriteFacts
    <2>2. before \in CompanyRows
        BY <1>0
    <2>3. ASSUME row \in Cleared(before) PROVE row \in CompanyRows
        <3>1. PICK j \in {before.journey} \union (IF before.journey = "PROSPECT" THEN {"CUSTOMER"} ELSE {}) :
                 row = [before EXCEPT !.gauge = "CLEAR", !.expires = now + Validity, !.journey = j]
            BY <2>3 DEF Cleared
        <3>2. j \in Life!Journeys /\ now + Validity \in Nat
            BY <1>0, <2>2, <3>1 DEF CompanyRows, Life!Journeys
        <3> QED BY <2>2, <3>1, <3>2 DEF CompanyRows
    <2>4. row \in CompanyRows
        <3>1. CASE row = [before EXCEPT !.gauge = "FLAGGED", !.expires = 0]
            BY <2>2, <3>1 DEF CompanyRows
        <3>2. CASE row = [before EXCEPT !.hit = TRUE] \/ row = [before EXCEPT !.hit = FALSE]
            BY <2>2, <3>2 DEF CompanyRows
        <3>3. CASE \E v \in {"PASSED", "FAILED", "PENDING"} : row = [before EXCEPT !.verdict = v]
            BY <2>2, <3>3 DEF CompanyRows
        <3>4. CASE row = [before EXCEPT !.contact = FALSE]
            BY <2>2, <3>4 DEF CompanyRows
        <3>5. CASE row \in Cleared(before)
            BY <2>3, <3>5
        <3> QED BY <2>1, <3>1, <3>2, <3>3, <3>4, <3>5, FactsAre
    <2> QED BY <1>0, <1>2, <2>1, <2>4
<1>3. CASE WriteBranch(t)
    <2>1. Through[t] \in Branches /\ company' = company
        BY <1>3 DEF WriteBranch, HandoverAssumption
    <2> DEFINE Registrations == [active : BOOLEAN, flagged : BOOLEAN]
               before == branch[Through[t]]
    <2>2. PICK b \in BOOLEAN :
             \/ branch' = [branch EXCEPT ![Through[t]] = [before EXCEPT !.active = b]]
             \/ branch' = [branch EXCEPT ![Through[t]] = [before EXCEPT !.flagged = b]]
        BY <1>3 DEF WriteBranch
    <2>3. before \in Registrations
        BY <1>0, <2>1
    <2>4. [before EXCEPT !.active = b] \in Registrations /\ [before EXCEPT !.flagged = b] \in Registrations
        BY <2>3
    <2>5. \A row \in Registrations :
             [branch EXCEPT ![Through[t]] = row] \in [Branches -> Registrations]
        BY <1>0, <2>1
    <2> QED BY <1>0, <2>1, <2>2, <2>4, <2>5
<1>4. CASE UNCHANGED <<company, branch>>
    BY <1>0, <1>4
<1> QED BY <1>1, <1>2, <1>3, <1>4 DEF Write, MoveStage, RecordHandover, SetBuyer, SetBranch,
        ChangeTerms, InsertDocument

(* What a deal offers is something to be given.                            *)
LEMMA OfferedIsGiven ==
    ASSUME HandInv, NEW d \in Deals
    PROVE  Life!Offered(d) \in Given
BY DEF HandInv, TypeOK, DealRows, Given, Life!Offered

(* A request's step keeps the whole invariant.                             *)
LEMMA RequestKeeps ==
    ASSUME DealAssumption, HandoverAssumption, HandInv, NEW t \in Txns, Request(t)
    PROVE  HandInv'
<1>1. /\ pc' \in [Txns -> Nat] /\ \A u \in Txns : pc'[u] \in DOMAIN Script[Kind[u]]
      /\ held' \in [Txns -> SUBSET Locks] /\ LocksExclude'
    BY Frame
<1>2. \A u \in Txns : RequestOK(u)'
    BY OwnKeeps, OthersKeep
<1>3. deal' \in [Deals -> DealRows] /\ \A d \in Deals : DealOK(d, deal'[d])
    <2>1. CASE Write(t)
        BY <2>1, WriteKeepsDeals
    <2>2. CASE UNCHANGED deal
        BY <2>2 DEF HandInv, TypeOK, HandedOverAsSnapshotted, DealOK, Life!Offered
    <2> QED BY <2>1, <2>2 DEF Request, Begin, Step, TakeLock, Judge, Snapshot, Rollback, rows
<1>4. /\ company' \in [Companies -> CompanyRows]
      /\ branch' \in [Branches -> [active : BOOLEAN, flagged : BOOLEAN]]
    <2>1. CASE Write(t)
        BY <2>1, WriteKeepsFacts
    <2>2. CASE UNCHANGED <<company, branch>>
        BY <2>2 DEF HandInv, TypeOK
    <2> QED BY <2>1, <2>2 DEF Request, Begin, Step, TakeLock, Judge, Snapshot, Rollback, rows
<1>5. now' \in 0 .. MaxTime
    BY DEF HandInv, TypeOK, Request, Begin, Step, TakeLock, Judge, Snapshot, Write, Rollback
<1>6. taken' \in [Txns -> [given : Given, at : Nat]]
    <2>0. taken \in [Txns -> [given : Given, at : Nat]]
        BY DEF HandInv, TypeOK
    <2>1. CASE Snapshot(t)
        <3>1. OnDeal[t] \in Deals /\ now \in Nat
            BY DEF HandoverAssumption, HandInv, TypeOK
        <3>2. Life!Offered(OnDeal[t]) \in Given
            BY <3>1, OfferedIsGiven
        <3> QED BY <2>0, <2>1, <3>1, <3>2 DEF Snapshot
    <2> QED BY <2>0, <2>1 DEF Request, Begin, Step, TakeLock, Judge, Write, Rollback
<1>7. TypeOK'
    BY <1>1, <1>3, <1>4, <1>5, <1>6 DEF TypeOK, DealOK
<1>8. HandedOverAsSnapshotted'
    BY <1>3 DEF HandedOverAsSnapshotted, DealOK, Life!Offered
<1> QED BY <1>1, <1>2, <1>7, <1>8 DEF HandInv

-----------------------------------------------------------------------------
(* No request has begun, so none holds anything.                           *)
LEMMA InitHandInv == DealAssumption /\ HandoverAssumption /\ Init => HandInv
<1> SUFFICES ASSUME DealAssumption, HandoverAssumption, Init PROVE HandInv
    OBVIOUS
<1>1. pc = [t \in Txns |-> 1] /\ held = [t \in Txns |-> {}]
    BY DEF Init, LocksInit
<1>2. ASSUME NEW t \in Txns PROVE pc[t] \in DOMAIN Script[Kind[t]] /\ At(t) = "begin"
    BY <1>1, ScriptSteps DEF HandoverAssumption, ScriptOK, At
<1>3. \A t \in Txns : RequestOK(t)
    BY <1>1, <1>2 DEF RequestOK, HoldsDeal, StillJudged, HoldsCompany, HoldsParties, Stands,
       HoldsOnly, PastJudge
<1>4. ASSUME NEW d \in Deals
      PROVE  /\ deal[d] \in DealRows /\ deal[d].stage # "HANDED_OVER"
             /\ deal[d].given = Life!NothingGiven
    <2>0. ASSUME NEW stage \in {"NONE", "OPEN", "GATHERING_PAPERWORK"},
                 NEW c \in Companies \union {NoCompany}, NEW b \in Branches \union {NoBranch},
                 NEW n \in Nat, deal[d] = Life!DealWith(stage, c, b, n)
          PROVE  /\ deal[d] \in DealRows /\ deal[d].stage # "HANDED_OVER"
                 /\ deal[d].given = Life!NothingGiven
        <3>1. Life!NothingGiven \in Given
            BY DEF Life!NothingGiven, Given
        <3> QED BY <2>0, <3>1 DEF Life!DealWith, DealRows, Life!Stages
    <2>1. deal[d] \in {Life!DealWith("NONE", NoCompany, NoBranch, 0), Life!NewDeal}
            \union {Life!DealWith("GATHERING_PAPERWORK", c, b, 1) :
                      c \in Companies, b \in Branches \union {NoBranch}}
        BY DEF Init, Life!Init
    <2>2. CASE deal[d] = Life!DealWith("NONE", NoCompany, NoBranch, 0)
        BY <2>0, <2>2
    <2>3. CASE deal[d] = Life!NewDeal
        BY <2>0, <2>3 DEF Life!NewDeal
    <2>4. CASE \E c \in Companies, b \in Branches \union {NoBranch} :
                 deal[d] = Life!DealWith("GATHERING_PAPERWORK", c, b, 1)
        BY <2>0, <2>4
    <2> QED BY <2>1, <2>2, <2>3, <2>4
<1>5. deal \in [Deals -> DealRows]
    <2>1. deal = [d \in Deals |-> deal[d]]
        BY DEF Init, Life!Init
    <2> QED BY <1>4, <2>1
<1>6. /\ company \in [Companies -> CompanyRows]
      /\ branch \in [Branches -> [active : BOOLEAN, flagged : BOOLEAN]]
      /\ now \in 0 .. MaxTime
    BY DEF Init, CompanyRows, Life!Journeys, HandoverAssumption
<1>7. taken \in [Txns -> [given : Given, at : Nat]] /\ held \in [Txns -> SUBSET Locks]
    BY DEF Init, LocksInit, Given, Life!NothingGiven
<1>8. TypeOK
    <2>1. \A d \in Deals : deal[d].buyer # Seller[d]
                          /\ (deal[d].branch # NoBranch => Owner[deal[d].branch] = Seller[d])
        BY DEF Init, Life!Init
    <2>2. pc \in [Txns -> Nat]
        BY <1>1
    <2> QED BY <1>2, <1>4, <1>5, <1>6, <1>7, <2>1, <2>2 DEF TypeOK
<1>9. LocksExclude /\ HandedOverAsSnapshotted
    BY <1>1, <1>4 DEF LocksExclude, HandedOverAsSnapshotted
<1> QED BY <1>3, <1>8, <1>9 DEF HandInv

(* Every step keeps the invariant; time moves nothing a request goes by.   *)
LEMMA NextHandInv ==
    DealAssumption /\ HandoverAssumption /\ HandInv /\ [Next]_vars => HandInv'
<1> SUFFICES ASSUME DealAssumption, HandoverAssumption, HandInv, [Next]_vars PROVE HandInv'
    OBVIOUS
<1>1. ASSUME UNCHANGED <<rows, pc, taken, held>>, now' \in 0 .. MaxTime PROVE HandInv'
    <2>1. TypeOK' /\ LocksExclude' /\ HandedOverAsSnapshotted'
        BY <1>1 DEF rows, HandInv, TypeOK, LocksExclude, HandedOverAsSnapshotted, Life!Offered
    <2>2. ASSUME NEW t \in Txns PROVE RequestOK(t)'
        <3>1. /\ At(t)' = At(t) /\ Stays(t)' = Stays(t)
              /\ Life!HandoverStands(OnDeal[t])' = Life!HandoverStands(OnDeal[t])
              /\ Life!Offered(OnDeal[t])' = Life!Offered(OnDeal[t])
              /\ FirstParty(OnDeal[t])' = FirstParty(OnDeal[t])
              /\ SecondParty(OnDeal[t])' = SecondParty(OnDeal[t])
            BY <1>1 DEF rows, At, Stays, Life!Opened, Life!Live, Life!HandoverStands,
               Life!BranchSound, Life!Offered, FirstParty, SecondParty
        <3>2. RequestOK(t) /\ held' = held /\ taken' = taken
            BY <1>1 DEF HandInv
        <3> QED BY <3>1, <3>2 DEF RequestOK, HoldsDeal, StillJudged, HoldsCompany, HoldsParties,
                Stands, HoldsOnly, Subject
    <2> QED BY <2>1, <2>2 DEF HandInv
<1>2. CASE Tick
    <2>1. now' \in 0 .. MaxTime
        BY <1>2 DEF Tick, HandInv, TypeOK, HandoverAssumption
    <2> QED BY <1>1, <1>2, <2>1 DEF Tick
<1>3. CASE UNCHANGED vars
    BY <1>1, <1>3 DEF vars, HandInv, TypeOK
<1>4. ASSUME NEW t \in Txns, Request(t) PROVE HandInv'
    BY <1>4, RequestKeeps
<1> QED BY <1>2, <1>3, <1>4 DEF Next, Request

(* What the requests keep true of the rows, their locks and one another,   *)
(* however they interleave, die or are rolled back.                        *)
THEOREM HandoverInvariant == Spec => []HandInv
<1>1. Init => HandInv
    BY InitHandInv, DealAssumption, HandoverAssumption
<1>2. HandInv /\ [Next]_vars => HandInv'
    BY NextHandInv, DealAssumption, HandoverAssumption
<1> QED BY <1>1, <1>2, PTL DEF Spec

(* Every row keeps the shape its table gives it.                           *)
THEOREM HandoverTypes == Spec => []TypeOK
<1>1. HandInv => TypeOK
    BY DEF HandInv
<1> QED BY <1>1, HandoverInvariant, PTL

(* The lending team holds what the deal says, from the handover on.        *)
THEOREM HandedOverAsSnapshottedHolds == Spec => []HandedOverAsSnapshotted
<1>1. HandInv => HandedOverAsSnapshotted
    BY DEF HandInv
<1> QED BY <1>1, HandoverInvariant, PTL

(* No request, however long it waited, changes a closed deal.              *)
THEOREM ClosedIsFinalHolds == Spec => ClosedIsFinal
<1> DEFINE Final == \A d \in Deals : deal[d].stage \in Life!Closed => deal'[d] = deal[d]
<1>1. HandInv /\ [Next]_vars => [Final]_vars
    <2> SUFFICES ASSUME HandInv, Next PROVE Final
        OBVIOUS
    <2>1. CASE Tick
        BY <2>1 DEF Tick, rows
    <2>2. ASSUME NEW t \in Txns, Request(t) PROVE Final
        <3> SUFFICES ASSUME NEW d \in Deals, deal[d].stage \in Life!Closed, deal'[d] # deal[d]
                     PROVE  FALSE
            OBVIOUS
        <3>1. d = OnDeal[t] /\ Stays(t) /\ Kind[t] \in DealKinds
            BY <2>2, WriterHolds, DealAssumption, HandoverAssumption
        <3> QED BY <3>1 DEF Stays, Life!Live, Life!Opened, Life!Closed
    <2> QED BY <2>1, <2>2 DEF Next, Request
<1> QED BY <1>1, HandoverInvariant, PTL DEF Spec, ClosedIsFinal

-----------------------------------------------------------------------------
(* What a request commits of a deal is a step of its life, at that moment. *)
LEMMA WriteLives ==
    ASSUME DealAssumption, HandoverAssumption, HandInv, NEW t \in Txns, Write(t)
    PROVE  Life!Next \/ UNCHANGED rows
<1> DEFINE d == OnDeal[t]
<1>0. /\ TypeOK /\ RequestOK(t) /\ At(t) = "write"
      /\ d \in Deals /\ About[t] \in Companies
      /\ deal \in [Deals -> DealRows]
    BY DEF HandInv, TypeOK, Write, HandoverAssumption
<1>1. Kind[t] \in DealKinds => Stays(t)
    BY <1>0 DEF RequestOK, StillJudged, PastJudge
<1>2. CASE InsertDeal(t) /\ UNCHANGED branch
    <2>1. Kind[t] = "open" /\ Kind[t] \in DealKinds
        BY <1>2 DEF InsertDeal, DealKinds
    <2>2. Life!Open(d)
        BY <1>1, <1>2, <2>1 DEF InsertDeal, Stays, Life!Open, Life!Change
    <2> QED BY <1>0, <2>2 DEF Life!Next
<1>3. CASE MoveStage(t) /\ UNCHANGED branch
    <2>1. Kind[t] \in {"gather", "withdraw"} /\ Stays(t)
        BY <1>1, <1>3 DEF MoveStage, DealKinds
    <2>2. PICK to \in {"GATHERING_PAPERWORK", "WITHDRAWN"} :
             /\ deal' = [deal EXCEPT ![d] = [deal[d] EXCEPT !.stage = to]]
             /\ <<deal[d].stage, to>> \in Life!PermittedMoves
        BY <1>3, <2>1 DEF MoveStage, Stays
    <2>3. Life!Move(d, to)
        BY <1>3, <2>2 DEF MoveStage, Life!Move, Life!Change
    <2> QED BY <1>0, <2>3 DEF Life!Next, Life!Stages
<1>4. CASE RecordHandover(t) /\ UNCHANGED branch
    <2>1. Kind[t] = "hand_over" /\ Stays(t)
        BY <1>1, <1>4 DEF RecordHandover, DealKinds
    <2>2. Life!HandoverStands(d) /\ taken[t].given = Life!Offered(d)
        BY <1>0, <2>1 DEF RequestOK, Stands
    <2>3. deal[d].stage = "GATHERING_PAPERWORK" /\ deal[d].buyer # NoCompany
        BY <2>1 DEF Stays, Life!PermittedMoves
    <2> DEFINE after == [deal[d] EXCEPT !.stage = "HANDED_OVER", !.given = taken[t].given,
                                        !.handedAt = taken[t].at]
    <2>4. deal' = [deal EXCEPT ![d] = after]
        BY <1>4 DEF RecordHandover
    <2>5. after.handedAt = taken[t].at
        BY <1>0 DEF DealRows
    <2>6. deal'[d] = after
        <3> HIDE DEF after
        <3> QED BY <1>0, <2>4
    <2>7. deal'[d].handedAt = taken[t].at
        BY <2>5, <2>6
    <2>8. Life!HandOver(d)
        BY <1>4, <2>2, <2>3, <2>4, <2>7 DEF RecordHandover, Life!HandOver, Life!Change
    <2> QED BY <1>0, <2>8 DEF Life!Next
<1>5. CASE SetBuyer(t) /\ UNCHANGED branch
    <2>1. Kind[t] = "name_buyer" /\ Stays(t) /\ Life!Live(d)
        BY <1>1, <1>5 DEF SetBuyer, DealKinds, Stays
    <2>2. Life!NameBuyer(d, About[t])
        BY <1>5, <2>1 DEF SetBuyer, Stays, Life!NameBuyer, Life!Change
    <2> QED BY <1>0, <2>2 DEF Life!Next
<1>6. CASE SetBranch(t) /\ UNCHANGED branch
    <2>1. Kind[t] = "set_branch" /\ Stays(t) /\ Life!Live(d)
        BY <1>1, <1>6 DEF SetBranch, DealKinds, Stays
    <2>2. Life!InvoiceFrom(d, Through[t])
        BY <1>6, <2>1 DEF SetBranch, Stays, Life!InvoiceFrom, Life!Change
    <2>3. Through[t] \in Branches \union {NoBranch}
        BY DEF HandoverAssumption
    <2> QED BY <1>0, <2>2, <2>3 DEF Life!Next
<1>7. CASE ChangeTerms(t) /\ UNCHANGED branch
    <2>1. Life!Live(d)
        BY <1>1, <1>7 DEF ChangeTerms, DealKinds, Stays
    <2>2. Life!SetTerms(d)
        BY <1>7, <2>1 DEF ChangeTerms, Life!SetTerms, Life!Change
    <2> QED BY <1>0, <2>2 DEF Life!Next
<1>8. CASE InsertDocument(t) /\ UNCHANGED branch
    <2>1. Life!Live(d)
        BY <1>1, <1>8 DEF InsertDocument, DealKinds, Stays
    <2>2. Life!File(d)
        BY <1>8, <2>1 DEF InsertDocument, Life!File, Life!Change
    <2> QED BY <1>0, <2>2 DEF Life!Next
<1>9. CASE WriteFacts(t) \/ WriteBranch(t)
    <2>1. Request(t)
        BY DEF Request, Step
    <2>2. \A c \in Companies : company'[c].journey # company[c].journey =>
             company[c].journey = "PROSPECT" /\ company'[c].journey = "CUSTOMER"
        BY <2>1, WriterHolds
    <2>3. UNCHANGED deal
        BY <1>9 DEF WriteFacts, WriteBranch
    <2>4. Life!FactsChange
        BY <2>2, <2>3 DEF Life!FactsChange, Life!Further
    <2> QED BY <2>4 DEF Life!Next
<1> QED BY <1>2, <1>3, <1>4, <1>5, <1>6, <1>7, <1>8, <1>9 DEF Write

(* The requests, statement by statement, implement the life of a deal: in  *)
(* particular it is handed over on a clear customer through a branch in    *)
(* good standing at the very commit.                                       *)
THEOREM ImplementsDealLifeHolds == Spec => ImplementsDealLife
<1>1. Init => Life!Init
    BY DEF Init
<1>2. HandInv /\ [Next]_vars => [Life!Next]_(Life!rows)
    <2> SUFFICES ASSUME HandInv, [Next]_vars PROVE Life!Next \/ UNCHANGED rows
        BY DEF rows, Life!rows
    <2>1. CASE UNCHANGED vars \/ Tick
        BY <2>1 DEF vars, Tick
    <2>2. ASSUME NEW t \in Txns, Write(t) PROVE Life!Next \/ UNCHANGED rows
        BY <2>2, WriteLives, DealAssumption, HandoverAssumption
    <2>3. ASSUME NEW t \in Txns, Begin(t) \/ TakeLock(t) \/ Judge(t) \/ Snapshot(t) \/ Rollback(t)
          PROVE  UNCHANGED rows
        BY <2>3 DEF Begin, TakeLock, Judge, Snapshot, Rollback
    <2> QED BY <2>1, <2>2, <2>3 DEF Next, Step
<1> QED BY <1>1, <1>2, HandoverInvariant, PTL DEF Spec, ImplementsDealLife, Life!Spec

-----------------------------------------------------------------------------
(* Who never leads back to a handover: whoever holds nothing, and an open  *)
(* waiting to write the seller the handover shares.                        *)
Aside(t) ==
    {u \in Txns :
        \/ u = t
        \/ held[u] = {}
        \/ /\ Kind[u] = "open"
           /\ At(u) = "conversation"
           /\ <<Seller[OnDeal[u]], "SHARE">> \in held[t]}

(* Only a company or a branch is waited for by who holds something already,*)
(* and only an open waits to write a company.                              *)
LEMMA LaterLocks ==
    ASSUME DealAssumption, HandoverAssumption, HandInv, NEW u \in Txns, NEW lock \in Wanted(u),
           held[u] # {}
    PROVE  /\ lock[1] \in Companies \union Branches
           /\ lock[1] \in Companies /\ lock[2] = "UPDATE" =>
                Kind[u] = "open" /\ At(u) = "conversation" /\ lock[1] = Seller[OnDeal[u]]
<1>1. At(u) \notin Unlocked /\ Makes(Kind[u], At(u)) /\ RequestOK(u)
    BY AtPoint DEF HandInv, RequestOK, HoldsOnly
<1>2. /\ Seller[OnDeal[u]] \in Companies /\ About[u] \in Companies
      /\ Companies \intersect Branches = {} /\ OnDeal[u] \in Deals
      /\ Through[u] \in Branches \union {NoBranch}
    BY DEF DealAssumption, HandoverAssumption
<1>3. At(u) \in {"first", "second"} =>
        FirstParty(OnDeal[u]) \in Companies /\ SecondParty(OnDeal[u]) \in Companies
    <2> SUFFICES ASSUME At(u) \in {"first", "second"}
                 PROVE  FirstParty(OnDeal[u]) \in Companies /\ SecondParty(OnDeal[u]) \in Companies
        OBVIOUS
    <2>1. Kind[u] = "hand_over" /\ Stays(u)
        BY <1>1 DEF Makes, RequestOK, StillJudged, PastJudge, DealKinds
    <2>2. deal[OnDeal[u]].buyer \in Companies \union {NoCompany}
        BY <1>2 DEF HandInv, TypeOK, DealRows
    <2>3. deal[OnDeal[u]].buyer \in Companies
        BY <2>1, <2>2 DEF Stays
    <2> QED BY <1>2, <2>3, Parties
<1>4. \/ At(u) = "history" /\ lock = <<Seller[OnDeal[u]], "KEY SHARE">>
      \/ At(u) = "conversation" /\ lock = <<Seller[OnDeal[u]], "UPDATE">>
      \/ At(u) = "first" /\ lock = <<FirstParty(OnDeal[u]), "SHARE">>
      \/ At(u) = "second" /\ lock = <<SecondParty(OnDeal[u]), "SHARE">>
      \/ At(u) = "buyer" /\ lock = <<About[u], "KEY SHARE">>
      \/ At(u) = "registration" /\ lock = <<Through[u], "UPDATE">>
      \/ At(u) = "refer" /\ lock = <<Seller[OnDeal[u]], "KEY SHARE">>
      \/ At(u) = "refer" /\ Through[u] # NoBranch /\ lock = <<Through[u], "KEY SHARE">>
    BY <1>1, WantedIs DEF Unlocked
<1>5. At(u) = "registration" => Through[u] \in Branches
    BY <1>1 DEF Makes, HandoverAssumption
<1>6. CASE At(u) = "conversation" /\ lock = <<Seller[OnDeal[u]], "UPDATE">>
    <2>1. Kind[u] = "open"
        BY <1>1, <1>6 DEF Makes
    <2> QED BY <1>2, <1>6, <2>1
<1>7. CASE At(u) = "registration" /\ lock = <<Through[u], "UPDATE">>
    <2>1. lock[1] \in Branches /\ lock[1] \notin Companies
        BY <1>2, <1>5, <1>7
    <2> QED BY <2>1
<1>8. CASE \E row \in Companies \union Branches, m \in {"KEY SHARE", "SHARE"} : lock = <<row, m>>
    <2>1. PICK row \in Companies \union Branches, m \in {"KEY SHARE", "SHARE"} : lock = <<row, m>>
        BY <1>8
    <2>2. lock[1] = row /\ lock[2] = m
        BY <2>1
    <2>3. lock[2] # "UPDATE"
        BY <2>2
    <2> QED BY <2>2, <2>3
<1> QED BY <1>2, <1>3, <1>4, <1>6, <1>7, <1>8

(* None of them leads back, for it is waited for by none of the others.    *)
LEMMA NoneAsideIsWaitedFor ==
    ASSUME DealAssumption, HandoverAssumption, HandInv, NEW t \in Txns, Kind[t] = "hand_over",
           NEW u \in Txns, u = t \/ u \notin Aside(t), NEW lock \in Wanted(u),
           NEW v \in Blockers(u, lock)
    PROVE  v \notin Aside(t)
<1>1. PICK m \in Modes : <<lock[1], m>> \in held[v] /\ Conflict(lock[2], m) /\ v \in Txns /\ v # u
    BY DEF Blockers
<1>2. \A w \in Txns : HoldsOnly(w) /\ OnDeal[w] \in Deals /\ Seller[OnDeal[w]] \in Companies
    BY DEF HandInv, RequestOK, DealAssumption, HandoverAssumption
<1>3. Deals \intersect (Companies \union Branches) = {} /\ Companies \intersect Branches = {}
    BY DEF HandoverAssumption
<1>4. held[t] \subseteq {<<OnDeal[t], "UPDATE">>} \union (Companies \X {"SHARE"})
    BY <1>2 DEF HoldsOnly
<1>5. CASE held[u] = {}
    <2>1. u = t
        BY <1>5 DEF Aside
    <2> QED BY <1>1, <1>5, <2>1 DEF Aside
<1>6. CASE held[u] # {}
    <2>1. /\ lock[1] \in Companies \union Branches
          /\ lock[1] \in Companies /\ lock[2] = "UPDATE" =>
               Kind[u] = "open" /\ At(u) = "conversation" /\ lock[1] = Seller[OnDeal[u]]
        BY <1>6, LaterLocks
    <2>2. ASSUME <<lock[1], m>> \in held[t] PROVE m = "SHARE" /\ lock[1] \in Companies
        <3>1. \/ <<lock[1], m>> = <<OnDeal[t], "UPDATE">>
              \/ lock[1] \in Companies /\ m = "SHARE"
            BY <1>4, <2>2
        <3>2. lock[1] # OnDeal[t]
            BY <1>2, <1>3, <2>1
        <3> QED BY <3>1, <3>2
    <2>3. v # t
        <3> SUFFICES ASSUME v = t PROVE FALSE
            OBVIOUS
        <3>1. m = "SHARE" /\ lock[1] \in Companies /\ lock[2] = "UPDATE"
            BY <1>1, <2>2 DEF Conflict
        <3>2. Kind[u] = "open" /\ At(u) = "conversation" /\ <<Seller[OnDeal[u]], "SHARE">> \in held[t]
            BY <1>1, <2>1, <3>1
        <3> QED BY <1>1, <3>2 DEF Aside
    <2>4. ASSUME Kind[v] = "open", At(v) = "conversation", <<Seller[OnDeal[v]], "SHARE">> \in held[t]
          PROVE  FALSE
        <3>1. held[v] \subseteq {<<OnDeal[v], "UPDATE">>, <<Seller[OnDeal[v]], "KEY SHARE">>}
            BY <1>1, <1>2, <2>4 DEF HoldsOnly
        <3>2. lock[1] # OnDeal[v]
            BY <1>1, <1>2, <1>3, <2>1
        <3>3. lock[1] = Seller[OnDeal[v]] /\ m = "KEY SHARE"
            BY <1>1, <3>1, <3>2
        <3>4. lock[1] \in Companies /\ lock[2] = "UPDATE"
            BY <1>1, <1>2, <3>3 DEF Conflict
        <3>5. Kind[u] = "open" /\ <<Seller[OnDeal[u]], "SHARE">> \in held[t] /\ At(u) = "conversation"
            BY <2>1, <2>4, <3>3, <3>4
        <3> QED BY <3>5 DEF Aside
    <2> QED BY <1>1, <2>3, <2>4 DEF Aside
<1> QED BY <1>5, <1>6

(* A handover is in no deadlock, among any number of requests of any kind. *)
THEOREM HandoverNeverDeadlocksHolds == Spec => []HandoverNeverDeadlocks
<1>1. HandInv => HandoverNeverDeadlocks
    <2> SUFFICES ASSUME HandInv, NEW t \in Txns, Kind[t] = "hand_over", Deadlocked(t, Waits)
                 PROVE  FALSE
        BY DEF HandoverNeverDeadlocks
    <2> DEFINE closed == Txns \ Aside(t)
    <2>1. ASSUME NEW u \in Txns, u = t \/ u \in closed PROVE Waits[u] \subseteq closed
        <3> SUFFICES ASSUME NEW v \in Waits[u] PROVE v \in closed
            OBVIOUS
        <3>1. PICK lock \in Wanted(u) : v \in Blockers(u, lock)
            BY DEF Waits
        <3>2. v \in Txns
            BY <3>1 DEF Blockers
        <3>3. v \notin Aside(t)
            BY <2>1, <3>1, NoneAsideIsWaitedFor, DealAssumption, HandoverAssumption
        <3> QED BY <3>2, <3>3
    <2>2. t \in closed
        <3>1. closed \in SUBSET Txns
            OBVIOUS
        <3>2. Waits[t] \subseteq closed
            BY <2>1
        <3>3. \A u \in closed : Waits[u] \subseteq closed
            BY <2>1
        <3> HIDE DEF closed
        <3> QED BY <3>1, <3>2, <3>3 DEF Deadlocked
    <2> QED BY <2>2 DEF Aside
<1> QED BY <1>1, HandoverInvariant, PTL

-----------------------------------------------------------------------------
(* Whether the requests can always go on.                                  *)
UnderWay(t) == At(t) \notin {"begin", "done"}
Unhindered == {"judge", "guard", "snapshot", "write"}

\* It is at a statement that waits for no lock, or one it waits for is free.
CanGoOn(t) ==
    \/ At(t) \in Unhindered
    \/ \E lock \in Wanted(t) : Blockers(t, lock) = {}

\* Nothing but a deadlock, which the database breaks, holds everyone up: no
\* request waits for a lock that one who is gone has left behind.
SomeoneGoesOn ==
    (\E t \in Txns : UnderWay(t)) => \E t \in Txns : CanGoOn(t) \/ Deadlocked(t, Waits)

\* Who sets a branch holds the deal alone when it comes to refer to the seller
\* and the branch, and goes on as soon as it refers to both.
Referring(t) ==
    /\ Kind[t] = "set_branch" /\ At(t) = "judge" => held[t] \subseteq {<<OnDeal[t], "UPDATE">>}
    /\ At(t) = "refer" => Wanted(t) # {}

ReferInv == \A t \in Txns : Referring(t)

(* Another's request moves neither its statement nor its locks.            *)
LEMMA OthersRefer ==
    ASSUME DealAssumption, HandoverAssumption, HandInv, ReferInv, NEW t \in Txns, Request(t),
           NEW u \in Txns, u # t
    PROVE  Referring(u)'
<1>1. At(u)' = At(u) /\ held'[u] = held[u]
    BY Frame
<1>2. At(u) = "refer" => Wanted(u)' = Wanted(u)
    BY <1>1 DEF Wanted
<1> QED BY <1>1, <1>2 DEF ReferInv, Referring

(* It has the deal when it is judged, and wants the seller when it refers. *)
LEMMA OwnRefers ==
    ASSUME DealAssumption, HandoverAssumption, HandInv, ReferInv, NEW t \in Txns, Request(t)
    PROVE  Referring(t)'
<1>0. TypeOK /\ Makes(Kind[t], At(t)) /\ RequestOK(t) /\ Referring(t)
    BY AtPoint DEF HandInv, ReferInv
<1>1. Seller[OnDeal[t]] \in Companies
    BY DEF DealAssumption, HandoverAssumption
<1>2. CASE End(t)
    BY <1>0, <1>2, NextPoint DEF Referring
<1>3. CASE Advance(t) /\ At(t) \notin {"deal", "judge", "done"}
    <2>1. At(t)' \notin {"judge", "refer"}
        BY <1>0, <1>3, NextPoint DEF After
    <2> QED BY <2>1 DEF Referring
<1>4. CASE Judge(t) /\ At(t) = "judge" /\ Advance(t) /\ UNCHANGED held
    <2>1. At(t)' = After(Kind[t], "judge")
        BY <1>0, <1>4, NextPoint
    <2>2. At(t)' # "judge"
        BY <2>1 DEF After
    <2>3. ASSUME At(t)' = "refer" PROVE Wanted(t)' # {}
        <3>1. Kind[t] = "set_branch"
            BY <2>1, <2>3 DEF After
        <3>2. <<Seller[OnDeal[t]], "KEY SHARE">> \notin held'[t]
            BY <1>0, <1>4, <3>1 DEF Referring
        <3>3. <<Seller[OnDeal[t]], "KEY SHARE">> \in Wanted(t)'
            BY <2>3, <3>2 DEF Wanted
        <3> QED BY <3>3
    <2> QED BY <2>2, <2>3 DEF Referring
<1>5. CASE TakeLock(t)
    <2>1. PICK lock \in Wanted(t) :
             /\ Acquire(t, lock)
             /\ IF Wanted(t) = {lock} THEN Advance(t) ELSE UNCHANGED pc
        BY <1>5 DEF TakeLock
    <2>2. held' = [held EXCEPT ![t] = @ \union {lock}] /\ held \in [Txns -> SUBSET Locks]
        BY <1>0, <2>1 DEF Acquire, TypeOK
    <2>3. CASE At(t) = "deal"
        <3>1. Wanted(t) = {<<OnDeal[t], "UPDATE">>} /\ lock = <<OnDeal[t], "UPDATE">>
            BY <2>1, <2>3 DEF Wanted, DealMode
        <3>2. At(t)' = "judge"
            BY <1>0, <2>1, <2>3, <3>1, NextPoint DEF After
        <3>3. held'[t] = {<<OnDeal[t], "UPDATE">>}
            BY <1>0, <2>2, <2>3, <3>1 DEF RequestOK, HoldsOnly, Unlocked
        <3> QED BY <3>2, <3>3 DEF Referring
    <2>4. CASE At(t) # "deal" /\ Wanted(t) = {lock}
        <3>1. At(t) \notin {"judge", "done"}
            BY <2>4 DEF Wanted
        <3> QED BY <1>3, <2>1, <2>4, <3>1
    <2>5. CASE Wanted(t) # {lock}
        <3>1. At(t) = "refer"
            BY <2>1, <2>5, WantedIs DEF Wanted
        <3>2. At(t)' = "refer"
            BY <2>1, <2>5, <3>1 DEF At
        <3>3. PICK other \in Wanted(t) : other # lock
            BY <2>1, <2>5
        <3>4. other \in Wanted(t)'
            BY <2>2, <3>1, <3>2, <3>3 DEF Wanted
        <3> QED BY <3>2, <3>4 DEF Referring
    <2> QED BY <2>3, <2>4, <2>5
<1>6. CASE Begin(t) \/ Snapshot(t) \/ (Judge(t) /\ At(t) = "guard")
    <2>1. End(t) \/ (Advance(t) /\ At(t) \notin {"deal", "judge", "done"})
        BY <1>6 DEF Begin, Snapshot, Judge
    <2> QED BY <1>2, <1>3, <2>1
<1> QED BY <1>2, <1>4, <1>5, <1>6 DEF Request, Step, Judge, Write, Rollback

(* Every step keeps it; time moves no request.                             *)
LEMMA NextRefers ==
    ASSUME DealAssumption, HandoverAssumption, HandInv, ReferInv, [Next]_vars
    PROVE  ReferInv'
<1>1. CASE UNCHANGED <<pc, held>>
    BY <1>1 DEF ReferInv, Referring, At, Wanted
<1>2. ASSUME NEW t \in Txns, Request(t) PROVE ReferInv'
    BY <1>2, OwnRefers, OthersRefer DEF ReferInv
<1> QED BY <1>1, <1>2 DEF Next, Request, Tick, vars

(* Who is held up waits for a lock of another who is under way.            *)
LEMMA OrDeadlocked ==
    ASSUME DealAssumption, HandoverAssumption, IsFiniteSet(Txns), HandInv, ReferInv
    PROVE  SomeoneGoesOn
<1> DEFINE Begun == {t \in Txns : UnderWay(t)}
<1> SUFFICES ASSUME Begun # {}, \A t \in Txns : ~CanGoOn(t)
             PROVE  \E t \in Begun : Deadlocked(t, Waits)
    BY DEF SomeoneGoesOn
<1>1. ASSUME NEW t \in Begun PROVE Waits[t] # {} /\ Waits[t] \subseteq Begun
    <2>1. At(t) \in Points \ (Unhindered \union {"begin", "done"}) /\ Referring(t)
        BY AtPoint DEF HandInv, ReferInv, Makes, UnderWay, CanGoOn
    <2>2. Wanted(t) # {}
        BY <2>1 DEF Points, PastJudge, Unhindered, Referring, Wanted
    <2>3. PICK lock \in Wanted(t) : Blockers(t, lock) # {}
        BY <2>2 DEF CanGoOn
    <2>4. Waits[t] = UNION {Blockers(t, l) : l \in Wanted(t)}
        BY DEF Waits
    <2>5. ASSUME NEW l, NEW u \in Blockers(t, l) PROVE u \in Begun
        <3>1. u \in Txns /\ held[u] # {}
            BY <2>5 DEF Blockers
        <3>2. At(u) \notin Unlocked
            BY <3>1 DEF HandInv, RequestOK, HoldsOnly
        <3> QED BY <3>1, <3>2 DEF UnderWay, Unlocked
    <2> QED BY <2>3, <2>4, <2>5
<1>2. IsFiniteSet(Begun)
    BY FS_Subset
<1> HIDE DEF Begun
<1>3. Begun \in SUBSET Txns
    BY DEF Begun
<1> QED BY <1>1, <1>2, <1>3, SomeoneIsDeadlocked

(* Of any number of requests on deals and the facts they rest on that have *)
(* begun, one can go on or is a deadlock's to be failed: no refusal, no    *)
(* rollback and no request that died leaves a lock for the others to wait  *)
(* for, and none waits for what nobody will grant.                         *)
THEOREM SomeoneGoesOnHolds ==
    ASSUME IsFiniteSet(Txns)
    PROVE  Spec => []SomeoneGoesOn
<1>1. Init => ReferInv
    <2> SUFFICES ASSUME Init, NEW t \in Txns PROVE Referring(t)
        BY DEF ReferInv
    <2>1. Script[Kind[t]][1] = "begin"
        BY ScriptSteps, HandoverAssumption DEF HandoverAssumption, ScriptOK
    <2>2. At(t) = "begin"
        BY <2>1 DEF Init, At
    <2> QED BY <2>2 DEF Referring
<1>2. HandInv /\ ReferInv /\ [Next]_vars => ReferInv'
    BY NextRefers, DealAssumption, HandoverAssumption
<1>3. HandInv /\ ReferInv => SomeoneGoesOn
    BY OrDeadlocked, DealAssumption, HandoverAssumption
<1> QED BY <1>1, <1>2, <1>3, HandoverInvariant, PTL DEF Spec
=============================================================================
