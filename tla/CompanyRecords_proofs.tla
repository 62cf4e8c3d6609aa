------------------------- MODULE CompanyRecords_proofs -------------------------
(***************************************************************************)
(* Two kinds of records of a company that one officer proposes and another *)
(* rules on: sanctions rulings and bank accounts.  Why a true match takes  *)
(* two officers, why the flag survives what is not an officer's doing, why *)
(* a request left alone sets its result right; and what holds of the bank  *)
(* accounts, however many versions and currencies there are and whatever   *)
(* the approval mode.                                                      *)
(***************************************************************************)
EXTENDS Sanctions, BankAccounts, WellFoundedInduction, TLAPS

-----------------------------------------------------------------------------
(* Sanctions rulings.                                                      *)

\* The newest of some places of a list is one of them, and none is newer.
LEMMA NewestIsThere ==
    ASSUME NEW n \in Nat, NEW S \in SUBSET (1..n), S # {}
    PROVE  Newest(S) \in S /\ \A i \in S : i <= Newest(S)
<1> DEFINE Bounds == {k \in Nat : \A i \in S : i <= k}
           R == OpToRel(<, Nat)
<1>1. n \in Bounds /\ Bounds \subseteq Nat
    OBVIOUS
<1>2. PICK k \in Bounds : \A m \in Bounds : <<m, k>> \notin R
    <2>1. IsWellFoundedOn(R, Nat)
        BY NatLessThanWellFounded
    <2> HIDE DEF Bounds, R
    <2> QED BY <1>1, <2>1, WFMin
<1>3. ASSUME NEW m \in Bounds PROVE k <= m
    <2>1. R = {p \in Nat \X Nat : p[1] < p[2]}
        BY DEF OpToRel
    <2>2. m \in Nat /\ k \in Nat /\ (m < k => <<m, k>> \in {p \in Nat \X Nat : p[1] < p[2]})
        OBVIOUS
    <2>3. ~(m < k)
        <3> HIDE DEF R, Bounds
        <3> QED BY <1>2, <2>1, <2>2
    <2> QED BY <2>2, <2>3
<1>4. k \in S
    <2> SUFFICES ASSUME k \notin S PROVE FALSE
        OBVIOUS
    <2>1. PICK i \in S : TRUE
        OBVIOUS
    <2>2. k - 1 \in Bounds
        BY <2>1
    <2> QED BY <1>3, <2>2
<1>5. \E i \in S : \A j \in S : i >= j
    BY <1>4
<1> QED BY <1>5 DEF Newest, Max

\* The newest of some places that include the last is the last.
LEMMA NewestIsTheLast ==
    ASSUME NEW n \in Nat, NEW S \in SUBSET (1..n), n \in S
    PROVE  Newest(S) = n
<1>1. Newest(S) \in S /\ n <= Newest(S)
    BY NewestIsThere
<1>2. Newest(S) \in 1..n
    BY <1>1
<1> QED BY <1>1, <1>2

-----------------------------------------------------------------------------
\* What a request carries from one step to the next.
InFlight(t) ==
    /\ pc[t] = "insert" => seen[t].at \in DOMAIN runs
    /\ pc[t] \in {"compare", "conclude", "record"} => seen[t].standing \in Outcomes

\* What a request left alone read still stands, up to the result it leaves.
AloneOK(t) ==
    /\ pc[t] \notin {"idle", "insert"}
    /\ pc[t] \in {"compare", "conclude", "record"} => seen[t].standing = Standing
    /\ pc[t] = "conclude" => seen[t].at = LatestResult /\ Concludes(LatestResult, Standing)
    /\ pc[t] = "done" => ResultAgrees

ScreeningInv ==
    /\ ScreeningTypeOK
    /\ TwoOfficers
    /\ \A t \in Requests : InFlight(t)
    /\ \A t \in alone : AloneOK(t)

\* The rows, by the types of their tables.
Run == [subject : Subjects, cycle : 1..MaxCycles, hits : SUBSET Hits, recorded : BOOLEAN]
RulingRow ==
    [disposition : Dispositions, by : Someone, approver : Someone] \union {NotFound}
Result == [cycle : 1..MaxCycles, status : Outcomes, review : {"NONE", "ACCEPTED", "REJECTED"}]

RulingOK(row) ==
    row.disposition = "TRUE_MATCH" /\ TrueMatchMode # "SINGLE" =>
        /\ row.approver \notin {row.by, NoOfficer}
        /\ TrueMatchMode = "HEAD" => row.approver \in Heads

(* The standing is one of four, and what it says depends on these only.    *)
LEMMA StandingIs ==
    /\ Standing \in Outcomes \union {"UNKNOWN"}
    /\ UNCHANGED <<cycle, runs, ruling>> => Standing' = Standing
<1>1. Standing \in Outcomes \union {"UNKNOWN"}
    BY DEF Standing, Outcomes
<1>2. UNCHANGED <<cycle, runs, ruling>> => Standing' = Standing
    BY DEF Standing, Screened, RunsThisCycle, RunsOf, InCycle, Outcome, HeadsOf
<1> QED BY <1>1, <1>2

(* The latest result of the cycle, when it has one.                        *)
LEMMA LatestResultIs ==
    ASSUME ScreeningTypeOK
    PROVE  /\ ResultsThisCycle # {} => LatestResult \in ResultsThisCycle
           /\ ResultsThisCycle = {} => LatestResult = 0
           /\ LatestResult # 0 => LatestResult \in ResultsThisCycle
           /\ ResultsThisCycle \subseteq DOMAIN results
<1>1. ResultsThisCycle \subseteq 1..Len(results) /\ Len(results) \in Nat
    BY DEF ResultsThisCycle, ScreeningTypeOK
<1>2. ResultsThisCycle # {} => LatestResult \in ResultsThisCycle
    BY <1>1, NewestIsThere DEF LatestResult
<1>3. ResultsThisCycle = {} => LatestResult = 0
    BY DEF LatestResult, Newest
<1>4. ResultsThisCycle \subseteq DOMAIN results
    BY DEF ResultsThisCycle
<1> QED BY <1>2, <1>3, <1>4

(* What an officer records first is never a match confirmed by one alone.  *)
LEMMA RecordedIs ==
    ASSUME SanctionsAssumption, NEW o \in Officers, NEW d \in Recordable \union {"OPEN"}
    PROVE  Recorded(o, d) \in RulingRow /\ RulingOK(Recorded(o, d))
BY DEF SanctionsAssumption, Recorded, AsRecorded, Ruling, RulingRow, RulingOK, Dispositions, Someone

(* A commit leaves its request alone, unless another is under way.         *)
LEMMA CommitKeeps ==
    ASSUME SanctionsAssumption, ScreeningTypeOK, NEW t \in Requests, Committed(t),
           \A u \in Requests : InFlight(u),
           TwoOfficers',
           cycle' \in 1..MaxCycles, runs' \in Seq(Run), ruling' \in [Hits -> RulingRow],
           results' \in Seq(Result), DOMAIN runs' = DOMAIN runs
    PROVE  ScreeningInv'
<1>1. pc' = [pc EXCEPT ![t] = "sync"] /\ seen' = [seen EXCEPT ![t] = Nothing] /\ alone' \subseteq {t}
    BY DEF Committed, Goto
<1>2. pc' \in [Requests -> Points] /\ seen' \in [Requests -> [standing : Outcomes \union {"UNKNOWN"}, at : Nat]]
    BY <1>1 DEF ScreeningTypeOK, Points, Nothing
<1>3. ScreeningTypeOK'
    BY <1>1, <1>2 DEF ScreeningTypeOK, Run, RulingRow, Result
<1>4. ASSUME NEW u \in Requests PROVE InFlight(u)'
    BY <1>1, <1>2 DEF InFlight, ScreeningTypeOK
<1>5. pc'[t] = "sync"
    BY <1>1 DEF ScreeningTypeOK
<1>6. ASSUME NEW u \in alone' PROVE AloneOK(u)'
    BY <1>1, <1>5 DEF AloneOK
<1> QED BY <1>3, <1>4, <1>6 DEF ScreeningInv

(* A step on the way to a result leaves nobody alone but its own request.  *)
LEMMA ContinueKeeps ==
    ASSUME SanctionsAssumption, ScreeningInv, NEW t \in Requests, NEW point \in Points, NEW keeps,
           Continues(t, point, keeps),
           keeps \in [standing : Outcomes \union {"UNKNOWN"}, at : Nat],
           UNCHANGED ruling,
           cycle' \in 1..MaxCycles, runs' \in Seq(Run), results' \in Seq(Result),
           DOMAIN runs \subseteq DOMAIN runs',
           point = "insert" => keeps.at \in DOMAIN runs',
           point \in {"compare", "conclude", "record"} => keeps.standing \in Outcomes,
           t \in alone => AloneOK(t)'
    PROVE  ScreeningInv'
<1>0. ScreeningTypeOK /\ TwoOfficers /\ \A u \in Requests : InFlight(u)
    BY DEF ScreeningInv
<1> DEFINE kept == IF point = "done" THEN Nothing ELSE keeps
<1>1. pc' = [pc EXCEPT ![t] = point] /\ seen' = [seen EXCEPT ![t] = kept] /\ alone' = alone \intersect {t}
    BY DEF Continues, Goto
<1>2. kept \in [standing : Outcomes \union {"UNKNOWN"}, at : Nat]
    BY DEF Nothing
<1>3. pc' \in [Requests -> Points] /\ seen' \in [Requests -> [standing : Outcomes \union {"UNKNOWN"}, at : Nat]]
    BY <1>0, <1>1, <1>2 DEF ScreeningTypeOK
<1>4. ScreeningTypeOK'
    BY <1>0, <1>1, <1>3 DEF ScreeningTypeOK, Run, RulingRow, Result
<1>5. ASSUME NEW u \in Requests PROVE InFlight(u)'
    <2>1. CASE u = t
        BY <1>0, <1>1, <2>1 DEF InFlight, ScreeningTypeOK
    <2>2. CASE u # t
        BY <1>0, <1>1, <2>2 DEF InFlight, ScreeningTypeOK
    <2> QED BY <2>1, <2>2
<1>6. TwoOfficers'
    BY <1>0 DEF TwoOfficers
<1>7. \A u \in alone' : AloneOK(u)'
    BY <1>1
<1> QED BY <1>4, <1>5, <1>6, <1>7 DEF ScreeningInv

-----------------------------------------------------------------------------
(* A run begun is stamped with the current cycle, and its request is not   *)
(* one left alone.                                                         *)
LEMMA BeginRunKeeps ==
    ASSUME SanctionsAssumption, ScreeningInv, NEW t \in Requests, NEW s \in Subjects, BeginRun(t, s)
    PROVE  ScreeningInv'
<1> DEFINE row == [subject |-> s, cycle |-> cycle, hits |-> {}, recorded |-> FALSE]
           keeps == [standing |-> "UNKNOWN", at |-> Len(runs) + 1]
<1>1. runs \in Seq(Run) /\ row \in Run /\ results \in Seq(Result) /\ cycle \in 1..MaxCycles
    BY DEF ScreeningInv, ScreeningTypeOK, Run, Result
<1>2. runs' = Append(runs, row) /\ Continues(t, "insert", keeps) /\ UNCHANGED <<cycle, ruling, results>>
    BY DEF BeginRun
<1>3. /\ runs' \in Seq(Run) /\ DOMAIN runs' = DOMAIN runs \union {Len(runs) + 1}
      /\ runs'[Len(runs) + 1] = row /\ \A i \in DOMAIN runs : runs'[i] = runs[i]
    <2> HIDE DEF row, keeps
    <2> QED BY <1>1, <1>2
<1>4. t \notin alone
    BY DEF BeginRun, ScreeningInv, AloneOK
<1>5. keeps \in [standing : Outcomes \union {"UNKNOWN"}, at : Nat] /\ keeps.at \in DOMAIN runs'
    BY <1>1, <1>3
<1>6. "insert" \in Points
    BY DEF Points
<1> HIDE DEF row, keeps
<1> QED BY <1>1, <1>2, <1>3, <1>4, <1>5, <1>6, ContinueKeeps

(* A run inserted brings hits with their first rulings.                    *)
LEMMA InsertRunKeeps ==
    ASSUME SanctionsAssumption, ScreeningInv, NEW t \in Requests, NEW o \in Officers, InsertRun(t, o)
    PROVE  ScreeningInv'
<1>1. PICK found \in SUBSET (Hits \ Found) :
         /\ runs' = [runs EXCEPT ![seen[t].at].hits = found, ![seen[t].at].recorded = TRUE]
         /\ \E first \in [found -> Recordable] :
              ruling' = [h \in Hits |-> IF h \in found THEN Recorded(o, first[h]) ELSE ruling[h]]
    BY DEF InsertRun
<1>2. PICK first \in [found -> Recordable] :
         ruling' = [h \in Hits |-> IF h \in found THEN Recorded(o, first[h]) ELSE ruling[h]]
    BY <1>1
<1>3. ScreeningTypeOK /\ TwoOfficers /\ (\A u \in Requests : InFlight(u))
      /\ UNCHANGED <<cycle, results>> /\ Committed(t) /\ pc[t] = "insert"
    BY DEF ScreeningInv, InsertRun
<1> DEFINE k == seen[t].at
           filled == [runs[k] EXCEPT !.hits = found]
           row == [filled EXCEPT !.recorded = TRUE]
<1>4. k \in DOMAIN runs /\ runs \in Seq(Run)
    BY <1>3 DEF InFlight, ScreeningTypeOK, Run
<1>5. row \in Run
    <2>1. runs[k] \in Run
        BY <1>4
    <2>2. found \in SUBSET Hits
        OBVIOUS
    <2>3. filled \in Run
        BY <2>1, <2>2 DEF Run
    <2> HIDE DEF filled
    <2> QED BY <2>3 DEF Run
<1>6. runs' = [runs EXCEPT ![k] = row]
    <2>1. runs' = [[runs EXCEPT ![k] = filled] EXCEPT ![k] = [[runs EXCEPT ![k] = filled][k] EXCEPT !.recorded = TRUE]]
        BY <1>1
    <2>2. [runs EXCEPT ![k] = filled][k] = filled
        BY <1>4
    <2> HIDE DEF filled
    <2> QED BY <1>4, <2>1, <2>2
<1>7. runs' \in Seq(Run) /\ DOMAIN runs' = DOMAIN runs
    <2> HIDE DEF row
    <2> QED BY <1>4, <1>5, <1>6
<1>8. ASSUME NEW h \in Hits PROVE ruling'[h] \in RulingRow /\ RulingOK(ruling'[h])
    <2>1. CASE h \in found
        BY <1>2, <2>1, RecordedIs
    <2>2. CASE h \notin found
        BY <1>2, <1>3, <2>2 DEF ScreeningTypeOK, RulingRow, TwoOfficers, RulingOK
    <2> QED BY <2>1, <2>2
<1>9. ruling' \in [Hits -> RulingRow] /\ TwoOfficers'
    BY <1>2, <1>8 DEF TwoOfficers, RulingOK
<1>10. cycle' \in 1..MaxCycles /\ results' \in Seq(Result)
    BY <1>3 DEF ScreeningTypeOK, Result
<1> QED BY <1>3, <1>7, <1>9, <1>10, CommitKeeps

(* A ruling that is not one officer's confirmation of their own.           *)
LEMMA RuleKeeps ==
    ASSUME SanctionsAssumption, ScreeningInv, NEW t \in Requests, NEW h \in Hits,
           NEW row \in RulingRow, RulingOK(row), Rule(t, h, row)
    PROVE  ScreeningInv'
<1>1. ScreeningTypeOK /\ TwoOfficers /\ (\A u \in Requests : InFlight(u))
      /\ UNCHANGED <<cycle, runs, results>> /\ Committed(t)
      /\ ruling' = [ruling EXCEPT ![h] = row]
    BY DEF ScreeningInv, Rule
<1>2. ruling' \in [Hits -> RulingRow]
    BY <1>1 DEF ScreeningTypeOK, RulingRow
<1>3. TwoOfficers'
    BY <1>1 DEF ScreeningTypeOK, TwoOfficers, RulingOK
<1>4. cycle' \in 1..MaxCycles /\ runs' \in Seq(Run) /\ results' \in Seq(Result)
    BY <1>1 DEF ScreeningTypeOK, Run, Result
<1> QED BY <1>1, <1>2, <1>3, <1>4, CommitKeeps

(* An officer rules on a hit; a proposal is confirmed by another.          *)
LEMMA RulingsKeep ==
    ASSUME SanctionsAssumption, ScreeningInv, NEW t \in Requests, NEW o \in Officers, NEW h \in Hits,
           \/ \E d \in Recordable : Decide(t, o, h, d)
           \/ ConfirmTrueMatch(t, o, h)
           \/ RejectTrueMatch(t, o, h)
    PROVE  ScreeningInv'
<1>1. CASE \E d \in Recordable : Decide(t, o, h, d)
    BY <1>1, RecordedIs, RuleKeeps DEF Decide
<1>2. CASE RejectTrueMatch(t, o, h)
    BY <1>2, RecordedIs, RuleKeeps DEF RejectTrueMatch
<1>3. CASE ConfirmTrueMatch(t, o, h)
    <2> DEFINE row == Ruling("TRUE_MATCH", ruling[h].by, o)
    <2>1. ruling[h].by \in Someone
        BY <1>3 DEF ConfirmTrueMatch, ScreeningInv, ScreeningTypeOK, NotFound, Ruling
    <2>2. row \in RulingRow /\ RulingOK(row)
        BY <1>3, <2>1 DEF ConfirmTrueMatch, MayConfirm, RulingRow, RulingOK, Ruling, Someone, Dispositions,
           SanctionsAssumption
    <2> QED BY <1>3, <2>2, RuleKeeps DEF ConfirmTrueMatch
<1> QED BY <1>1, <1>2, <1>3

-----------------------------------------------------------------------------
(* What the latest result is to say, when there is nothing left to write.  *)
LEMMA UpToDateAgrees ==
    ASSUME ScreeningTypeOK, UpToDate(LatestResult, Standing)
    PROVE  ResultAgrees
<1>1. LatestResult # 0 /\ results[LatestResult].status = Standing /\ results[LatestResult].review = "NONE"
    BY DEF UpToDate
<1>2. ResultsThisCycle # {}
    BY <1>1, LatestResultIs
<1>3. CheckState = IF Standing # "REVIEW" THEN Standing ELSE "PENDING"
    BY <1>1, <1>2 DEF CheckState, LatestResult
<1> QED BY <1>3 DEF ResultAgrees

(* The standing is read, and nothing is written where there is none.       *)
LEMMA ReadStandingKeeps ==
    ASSUME SanctionsAssumption, ScreeningInv, NEW t \in Requests, ReadStanding(t)
    PROVE  ScreeningInv'
<1> DEFINE point == IF Standing = "UNKNOWN" THEN "done" ELSE "compare"
           keeps == [standing |-> Standing, at |-> 0]
<1>1. Continues(t, point, keeps) /\ UNCHANGED <<cycle, runs, ruling, results>>
    BY DEF ReadStanding
<1>2. Standing \in Outcomes \union {"UNKNOWN"} /\ Standing' = Standing
    BY <1>1, StandingIs
<1>3. /\ cycle' \in 1..MaxCycles /\ runs' \in Seq(Run) /\ results' \in Seq(Result)
      /\ DOMAIN runs' = DOMAIN runs
    BY <1>1 DEF ScreeningInv, ScreeningTypeOK, Run, Result
<1>4. pc'[t] = point /\ (point = "compare" => seen'[t] = keeps)
    BY <1>1 DEF ScreeningInv, ScreeningTypeOK, Continues, Goto
<1>5. AloneOK(t)'
    BY <1>2, <1>4 DEF AloneOK, ResultAgrees
<1>6. point \in Points /\ keeps \in [standing : Outcomes \union {"UNKNOWN"}, at : Nat]
      /\ point # "insert" /\ (point \in {"compare", "conclude", "record"} => keeps.standing \in Outcomes)
    BY <1>2 DEF Points
<1> HIDE DEF point, keeps
<1> QED BY <1>1, <1>3, <1>5, <1>6, ContinueKeeps

(* The latest result is read, and judged against the standing seen.        *)
LEMMA ReadLatestResultKeeps ==
    ASSUME SanctionsAssumption, ScreeningInv, NEW t \in Requests, ReadLatestResult(t)
    PROVE  ScreeningInv'
<1> DEFINE point == IF UpToDate(LatestResult, seen[t].standing) THEN "done"
                    ELSE IF Concludes(LatestResult, seen[t].standing) THEN "conclude" ELSE "record"
           keeps == [seen[t] EXCEPT !.at = LatestResult]
<1>1. Continues(t, point, keeps) /\ UNCHANGED <<cycle, runs, ruling, results>> /\ pc[t] = "compare"
    BY DEF ReadLatestResult
<1>2. ScreeningTypeOK /\ seen[t].standing \in Outcomes
    BY <1>1 DEF ScreeningInv, InFlight
<1>3. /\ cycle' \in 1..MaxCycles /\ runs' \in Seq(Run) /\ results' \in Seq(Result)
      /\ DOMAIN runs' = DOMAIN runs
    BY <1>1 DEF ScreeningInv, ScreeningTypeOK, Run, Result
<1>4. LatestResult \in Nat
    BY <1>2, LatestResultIs DEF ScreeningTypeOK
<1>5. /\ keeps \in [standing : Outcomes \union {"UNKNOWN"}, at : Nat]
      /\ keeps.standing = seen[t].standing /\ keeps.at = LatestResult
    BY <1>2, <1>4 DEF ScreeningTypeOK
<1>6. pc'[t] = point /\ (point # "done" => seen'[t] = keeps)
    BY <1>1 DEF ScreeningInv, ScreeningTypeOK, Continues, Goto
<1>7. Standing' = Standing /\ LatestResult' = LatestResult
      /\ Concludes(LatestResult, Standing)' = Concludes(LatestResult, Standing)
      /\ ResultAgrees' = ResultAgrees
    <2>1. Standing' = Standing
        BY <1>1, StandingIs
    <2>2. ResultsThisCycle' = ResultsThisCycle /\ CheckState' = CheckState
        BY <1>1 DEF ResultsThisCycle, CheckState, InCycle
    <2>3. LatestResult' = LatestResult
        BY <2>2 DEF LatestResult
    <2>4. results' = results
        BY <1>1
    <2> QED BY <2>1, <2>2, <2>3, <2>4 DEF Concludes, ResultAgrees
<1>8. ASSUME t \in alone PROVE AloneOK(t)'
    <2>1. seen[t].standing = Standing
        BY <1>1, <1>8 DEF ScreeningInv, AloneOK
    <2>2. point = "done" => ResultAgrees
        BY <1>2, <2>1, UpToDateAgrees
    <2>3. point = "conclude" => Concludes(LatestResult, Standing)
        BY <2>1
    <2>4. point \in {"done", "conclude", "record"}
        OBVIOUS
    <2> HIDE DEF point, keeps
    <2> QED BY <1>5, <1>6, <1>7, <2>1, <2>2, <2>3, <2>4 DEF AloneOK
<1>9. point \in Points /\ point # "insert"
    BY DEF Points
<1> HIDE DEF point, keeps
<1> QED BY <1>1, <1>2, <1>3, <1>5, <1>8, <1>9, ContinueKeeps

(* A review concluded keeps what is read; one refused ends its request,    *)
(* which then was not left alone.                                          *)
LEMMA ConcludeReviewKeeps ==
    ASSUME SanctionsAssumption, ScreeningInv, NEW t \in Requests, ConcludeReview(t)
    PROVE  ScreeningInv'
<1>0. ScreeningTypeOK /\ pc[t] = "conclude" /\ UNCHANGED <<cycle, runs, ruling>>
      /\ seen[t].standing \in Outcomes /\ results \in Seq(Result)
    BY DEF ConcludeReview, ScreeningInv, InFlight, ScreeningTypeOK, Result
<1>1. cycle' \in 1..MaxCycles /\ runs' \in Seq(Run) /\ DOMAIN runs' = DOMAIN runs
    BY <1>0 DEF ScreeningTypeOK, Run
<1>2. Standing' = Standing
    BY <1>0, StandingIs
<1>3. CASE results[seen[t].at].review = "NONE"
    <2> DEFINE k == seen[t].at
               row == [results[k] EXCEPT !.review = Verdict(seen[t].standing)]
    <2>1. results' = [results EXCEPT ![k] = row] /\ Continues(t, "record", seen[t])
        BY <1>3 DEF ConcludeReview
    <2>2. results' \in Seq(Result)
        <3>1. CASE k \in DOMAIN results
            <4>1. results[k] \in Result /\ Verdict(seen[t].standing) \in {"ACCEPTED", "REJECTED"}
                BY <1>0, <3>1 DEF Verdict
            <4>2. row \in Result
                BY <4>1 DEF Result
            <4> HIDE DEF row
            <4> QED BY <1>0, <2>1, <3>1, <4>2
        <3>2. CASE k \notin DOMAIN results
            <4> HIDE DEF row
            <4>1. /\ \A i \in DOMAIN results : results'[i] = results[i]
                  /\ DOMAIN results' = DOMAIN results
                BY <1>0, <2>1, <3>2
            <4>2. results' = results
                BY <1>0, <2>1, <4>1
            <4> QED BY <1>0, <4>2
        <3> QED BY <3>1, <3>2
    <2>3. pc'[t] = "record" /\ seen'[t] = seen[t]
        BY <1>0, <2>1 DEF ScreeningTypeOK, Continues, Goto
    <2>4. t \in alone => AloneOK(t)'
        BY <1>0, <1>2, <2>3 DEF ScreeningInv, AloneOK
    <2>5. seen[t] \in [standing : Outcomes \union {"UNKNOWN"}, at : Nat] /\ "record" \in Points
        BY <1>0 DEF ScreeningTypeOK, Points
    <2> QED BY <1>0, <1>1, <2>1, <2>2, <2>4, <2>5, ContinueKeeps
<1>4. CASE results[seen[t].at].review # "NONE"
    <2>1. UNCHANGED results /\ Continues(t, "done", Nothing)
        BY <1>4 DEF ConcludeReview
    <2>2. t \notin alone
        BY <1>0, <1>4 DEF ScreeningInv, AloneOK, Concludes
    <2>3. results' \in Seq(Result)
        BY <1>0, <2>1
    <2>4. "done" \in Points /\ Nothing \in [standing : Outcomes \union {"UNKNOWN"}, at : Nat]
        BY DEF Points, Nothing
    <2> QED BY <1>0, <1>1, <2>1, <2>2, <2>3, <2>4, ContinueKeeps
<1> QED BY <1>3, <1>4

(* The result recorded is the latest of the cycle, and says what was seen. *)
LEMMA RecordedResultAgrees ==
    ASSUME SanctionsAssumption, ScreeningTypeOK, NEW t \in Requests, RecordResult(t), seen[t].standing = Standing
    PROVE  ResultAgrees'
<1> DEFINE n == Len(results) + 1
           row == [cycle |-> cycle, status |-> Standing, review |-> "NONE"]
<1>1. results' = Append(results, row) /\ UNCHANGED <<cycle, runs, ruling>> /\ results \in Seq(Result)
    BY DEF RecordResult, ScreeningTypeOK, Result
<1>2. Standing' = Standing
    BY <1>1, StandingIs
<1>3. DOMAIN results' = 1..n /\ n \in Nat /\ results'[n] = row
    <2> HIDE DEF row
    <2> QED BY <1>1
<1>4. n \in ResultsThisCycle' /\ ResultsThisCycle' \subseteq 1..n
    BY <1>1, <1>3 DEF ResultsThisCycle, InCycle
<1>5. Newest(ResultsThisCycle') = n
    BY <1>3, <1>4, NewestIsTheLast
<1>6. CheckState' = IF Standing # "REVIEW" THEN Standing ELSE "PENDING"
    BY <1>3, <1>4, <1>5 DEF CheckState
<1> QED BY <1>2, <1>6 DEF ResultAgrees

(* A result is stamped with the cycle that is current by now.              *)
LEMMA RecordResultKeeps ==
    ASSUME SanctionsAssumption, ScreeningInv, NEW t \in Requests, RecordResult(t)
    PROVE  ScreeningInv'
<1> DEFINE row == [cycle |-> cycle, status |-> seen[t].standing, review |-> "NONE"]
<1>0. /\ ScreeningTypeOK /\ pc[t] = "record" /\ UNCHANGED <<cycle, runs, ruling>>
      /\ seen[t].standing \in Outcomes /\ results \in Seq(Result)
      /\ results' = Append(results, row) /\ Continues(t, "done", Nothing)
    BY DEF RecordResult, ScreeningInv, InFlight, ScreeningTypeOK, Result
<1>1. cycle' \in 1..MaxCycles /\ runs' \in Seq(Run) /\ DOMAIN runs' = DOMAIN runs
    BY <1>0 DEF ScreeningTypeOK, Run
<1>2. results' \in Seq(Result)
    <2>1. row \in Result
        BY <1>0 DEF ScreeningTypeOK, Result
    <2> HIDE DEF row
    <2> QED BY <1>0, <2>1
<1>3. t \in alone => AloneOK(t)'
    <2>1. pc'[t] = "done"
        BY <1>0 DEF ScreeningTypeOK, Continues, Goto
    <2>2. t \in alone => seen[t].standing = Standing
        BY <1>0 DEF ScreeningInv, AloneOK
    <2>3. t \in alone => ResultAgrees'
        BY <1>0, <2>2, RecordedResultAgrees
    <2> QED BY <2>1, <2>3 DEF AloneOK
<1>4. "done" \in Points /\ Nothing \in [standing : Outcomes \union {"UNKNOWN"}, at : Nat]
    BY DEF Points, Nothing
<1> HIDE DEF row
<1> QED BY <1>0, <1>1, <1>2, <1>3, <1>4, ContinueKeeps

-----------------------------------------------------------------------------
(* A death leaves nobody alone, and nothing written undone.                *)
LEMMA DieKeeps ==
    ASSUME ScreeningInv, NEW t \in Requests, Die(t)
    PROVE  ScreeningInv'
<1>1. /\ ScreeningTypeOK /\ alone' = {} /\ UNCHANGED <<cycle, runs, ruling, results>>
      /\ pc' = [pc EXCEPT ![t] = "done"] /\ seen' = [seen EXCEPT ![t] = Nothing]
    BY DEF Die, ScreeningInv, Goto
<1>2. pc' \in [Requests -> Points] /\ seen' \in [Requests -> [standing : Outcomes \union {"UNKNOWN"}, at : Nat]]
    BY <1>1 DEF ScreeningTypeOK, Points, Nothing
<1>3. ScreeningTypeOK'
    BY <1>1, <1>2 DEF ScreeningTypeOK
<1>4. ASSUME NEW u \in Requests PROVE InFlight(u)'
    BY <1>1 DEF ScreeningInv, InFlight, ScreeningTypeOK
<1> QED BY <1>1, <1>3, <1>4 DEF ScreeningInv, TwoOfficers

(* A Re-KYC opens a cycle nothing is stamped with yet.                     *)
LEMMA StartCycleKeeps ==
    ASSUME SanctionsAssumption, ScreeningInv, StartCycle
    PROVE  ScreeningInv'
<1>1. /\ ScreeningTypeOK /\ cycle < MaxCycles /\ cycle' = cycle + 1 /\ alone' = {}
      /\ UNCHANGED <<runs, ruling, results, pc, seen>>
    BY DEF StartCycle, ScreeningInv
<1>2. ScreeningTypeOK'
    BY <1>1 DEF ScreeningTypeOK, SanctionsAssumption
<1> QED BY <1>1, <1>2 DEF ScreeningInv, InFlight, TwoOfficers

(* A review by hand, of whichever result.                                  *)
LEMMA ReviewByHandKeeps ==
    ASSUME ScreeningInv, NEW k \in DOMAIN results,
           NEW verdict \in {"ACCEPTED", "REJECTED"}, ReviewByHand(k, verdict)
    PROVE  ScreeningInv'
<1> DEFINE row == [results[k] EXCEPT !.review = verdict]
<1>1. /\ ScreeningTypeOK /\ results' = [results EXCEPT ![k] = row] /\ alone' = {}
      /\ UNCHANGED <<cycle, runs, ruling, pc, seen>> /\ results \in Seq(Result)
    BY DEF ReviewByHand, ScreeningInv, ScreeningTypeOK, Result
<1>2. row \in Result
    <2>1. results[k] \in Result
        BY <1>1
    <2> QED BY <2>1 DEF Result
<1>3. results' \in Seq(Result)
    <2> HIDE DEF row
    <2> QED BY <1>1, <1>2
<1>4. ScreeningTypeOK'
    BY <1>1, <1>3 DEF ScreeningTypeOK, Result
<1> QED BY <1>1, <1>4 DEF ScreeningInv, InFlight, TwoOfficers

(* Nothing is recorded to begin with.                                      *)
LEMMA InitScreening ==
    ASSUME SanctionsAssumption, ScreeningInit
    PROVE  ScreeningInv
<1>1. ScreeningTypeOK
    BY DEF ScreeningInit, ScreeningTypeOK, SanctionsAssumption, Points, Nothing
<1>2. TwoOfficers
    BY DEF ScreeningInit, TwoOfficers, NotFound, Ruling
<1>3. \A t \in Requests : InFlight(t)
    BY DEF ScreeningInit, InFlight
<1> QED BY <1>1, <1>2, <1>3 DEF ScreeningInit, ScreeningInv

(* Every step of the screening keeps the invariant.                        *)
LEMMA NextKeepsScreening ==
    ASSUME SanctionsAssumption, ScreeningInv, [ScreeningNext]_screeningVars
    PROVE  ScreeningInv'
<1>1. ASSUME NEW t \in Requests, NEW s \in Subjects, BeginRun(t, s) PROVE ScreeningInv'
    BY <1>1, BeginRunKeeps
<1>2. ASSUME NEW t \in Requests, NEW o \in Officers, InsertRun(t, o) PROVE ScreeningInv'
    BY <1>2, InsertRunKeeps
<1>3. ASSUME NEW t \in Requests, NEW o \in Officers, NEW h \in Hits,
             \/ \E d \in Recordable : Decide(t, o, h, d)
             \/ ConfirmTrueMatch(t, o, h)
             \/ RejectTrueMatch(t, o, h)
      PROVE  ScreeningInv'
    BY <1>3, RulingsKeep
<1>4. ASSUME NEW t \in Requests, Sync(t) PROVE ScreeningInv'
    BY <1>4, ReadStandingKeeps, ReadLatestResultKeeps, ConcludeReviewKeeps, RecordResultKeeps DEF Sync
<1>5. ASSUME NEW t \in Requests, Die(t) PROVE ScreeningInv'
    BY <1>5, DieKeeps
<1>6. CASE StartCycle
    BY <1>6, StartCycleKeeps
<1>7. ASSUME NEW i \in DOMAIN results, NEW verdict \in {"ACCEPTED", "REJECTED"},
             ReviewByHand(i, verdict)
      PROVE  ScreeningInv'
    BY <1>7, ReviewByHandKeeps
<1>8. CASE UNCHANGED screeningVars
    <2>1. UNCHANGED <<cycle, runs, ruling, results, pc, seen, alone>>
        BY <1>8 DEF screeningVars
    <2>2. Standing' = Standing
        BY <2>1, StandingIs
    <2>3. ResultsThisCycle' = ResultsThisCycle /\ CheckState' = CheckState
        BY <2>1 DEF ResultsThisCycle, CheckState, InCycle
    <2>4. LatestResult' = LatestResult
        BY <2>3 DEF LatestResult
    <2>5. ASSUME NEW t \in alone PROVE AloneOK(t)'
        BY <2>1, <2>2, <2>3, <2>4 DEF ScreeningInv, AloneOK, Concludes, ResultAgrees
    <2> QED BY <2>1, <2>5 DEF ScreeningInv, ScreeningTypeOK, TwoOfficers, InFlight
<1> QED BY <1>1, <1>2, <1>3, <1>4, <1>5, <1>6, <1>7, <1>8 DEF ScreeningNext

(* The inductive invariant of the screening.                               *)
THEOREM ScreeningInvariant == ScreeningSpec => []ScreeningInv
<1>1. ScreeningInit => ScreeningInv
    BY InitScreening, SanctionsAssumption
<1>2. ScreeningInv /\ [ScreeningNext]_screeningVars => ScreeningInv'
    BY NextKeepsScreening, SanctionsAssumption
<1> QED BY <1>1, <1>2, PTL DEF ScreeningSpec

(* The tables and the requests under way have the types of their columns,  *)
(* whatever an officer records and whoever dies on the way.                *)
THEOREM SanctionsTypes == ScreeningSpec => []ScreeningTypeOK
<1>1. ScreeningInv => ScreeningTypeOK
    BY DEF ScreeningInv
<1> QED BY <1>1, ScreeningInvariant, PTL

(* In the modes that ask for two officers no ruling, rejection or fresh    *)
(* screening leaves a true match that one of them confirmed alone.         *)
THEOREM TwoOfficersHolds == ScreeningSpec => []TwoOfficers
<1>1. ScreeningInv => TwoOfficers
    BY DEF ScreeningInv
<1> QED BY <1>1, ScreeningInvariant, PTL

(* Whatever raced or died before, a request that nothing else interrupts   *)
(* after its commit ends with the check saying what the screening says.    *)
THEOREM AloneSetsRightHolds == ScreeningSpec => []AloneSetsRight
<1>1. ScreeningInv => AloneSetsRight
    BY DEF ScreeningInv, AloneOK, AloneSetsRight
<1> QED BY <1>1, ScreeningInvariant, PTL

-----------------------------------------------------------------------------
(* The flag is read of the runs and the rulings alone, whatever the cycle. *)
LEMMA FlagIsOfRunsAndRulings ==
    ASSUME UNCHANGED <<runs, ruling>>
    PROVE  Flagged' = Flagged
BY DEF Flagged, RunsOf, HeadsOf

(* A run not inserted yet changes no subject's latest run.                 *)
LEMMA BeginRunKeepsTheFlag ==
    ASSUME ScreeningTypeOK, NEW t \in Requests, NEW s \in Subjects, BeginRun(t, s), Flagged
    PROVE  Flagged'
<1> DEFINE row == [subject |-> s, cycle |-> cycle, hits |-> {}, recorded |-> FALSE]
           n == Len(runs) + 1
<1>1. runs' = Append(runs, row) /\ UNCHANGED ruling /\ runs \in Seq(Run) /\ row.recorded = FALSE
    BY DEF BeginRun, ScreeningTypeOK, Run
<1>2. /\ DOMAIN runs' = DOMAIN runs \union {n} /\ runs'[n] = row
      /\ \A i \in DOMAIN runs : runs'[i] = runs[i]
      /\ DOMAIN runs = 1..Len(runs) /\ Len(runs) \in Nat
    <2> HIDE DEF row
    <2> QED BY <1>1
<1>3. PICK u \in Subjects : RunsOf(u) # {} /\ HeadsOf(Newest(RunsOf(u))) \intersect Flagging # {}
    BY DEF Flagged
<1>4. RunsOf(u)' = RunsOf(u)
    <2> HIDE DEF row, n
    <2> QED BY <1>1, <1>2 DEF RunsOf
<1>5. Newest(RunsOf(u)) \in DOMAIN runs
    <2>1. RunsOf(u) \in SUBSET (1..Len(runs))
        BY <1>2 DEF RunsOf
    <2>2. Newest(RunsOf(u)) \in RunsOf(u)
        BY <1>2, <1>3, <2>1, NewestIsThere
    <2> QED BY <2>2 DEF RunsOf
<1>6. HeadsOf(Newest(RunsOf(u)))' = HeadsOf(Newest(RunsOf(u)))
    <2>1. Newest(RunsOf(u))' = Newest(RunsOf(u))
        BY <1>4
    <2>2. runs'[Newest(RunsOf(u))] = runs[Newest(RunsOf(u))]
        BY <1>2, <1>5
    <2> QED BY <1>1, <2>1, <2>2 DEF HeadsOf
<1> QED BY <1>3, <1>4, <1>6 DEF Flagged

(* A ruling that leaves each flagging match flagging keeps the flag.       *)
LEMMA RulingKeepsTheFlag ==
    ASSUME UNCHANGED runs,
           \A h : ruling[h].disposition \in Flagging => ruling'[h].disposition \in Flagging,
           Flagged
    PROVE  Flagged'
<1>1. ASSUME NEW s PROVE RunsOf(s)' = RunsOf(s)
    BY DEF RunsOf
<1>2. ASSUME NEW i, HeadsOf(i) \intersect Flagging # {}
      PROVE  HeadsOf(i)' \intersect Flagging # {}
    <2>1. PICK h \in runs[i].hits : ruling[h].disposition \in Flagging
        BY <1>2 DEF HeadsOf
    <2>2. ruling'[h].disposition \in Flagging /\ h \in runs'[i].hits
        BY <2>1
    <2> QED BY <2>2 DEF HeadsOf
<1>3. PICK u \in Subjects : RunsOf(u) # {} /\ HeadsOf(Newest(RunsOf(u))) \intersect Flagging # {}
    BY DEF Flagged
<1>4. Newest(RunsOf(u))' = Newest(RunsOf(u))
    BY <1>1
<1>5. HeadsOf(Newest(RunsOf(u)))' \intersect Flagging # {}
    <2> DEFINE i == Newest(RunsOf(u))
    <2>1. HeadsOf(i)' \intersect Flagging # {}
        BY <1>2, <1>3, <1>4 DEF HeadsOf
    <2> QED BY <2>1
<1> QED BY <1>1, <1>3, <1>5 DEF Flagged

(* Once a subject's latest run has a match proposed or confirmed, only a   *)
(* fresh screening or a rejection by an officer takes the flag away: no    *)
(* Re-KYC, review, ruling on another match, or death of a request does.    *)
THEOREM OnlyOfficersLiftTheFlagHolds == ScreeningSpec => OnlyOfficersLiftTheFlag
<1> DEFINE Lifted == \E t \in Requests, o \in Officers :
                         InsertRun(t, o) \/ \E h \in Hits : RejectTrueMatch(t, o, h)
<1>1. ASSUME ScreeningInv, [ScreeningNext]_screeningVars, Flagged, ~Flagged' PROVE Lifted
    <2>0. ScreeningTypeOK
        BY <1>1 DEF ScreeningInv
    <2>1. ~UNCHANGED <<runs, ruling>>
        BY <1>1, FlagIsOfRunsAndRulings
    <2>2. ASSUME NEW t \in Requests, NEW s \in Subjects, BeginRun(t, s) PROVE FALSE
        BY <1>1, <2>0, <2>2, BeginRunKeepsTheFlag
    <2>3. ASSUME NEW t \in Requests, NEW o \in Officers, NEW h \in Hits, NEW d \in Recordable,
                 Decide(t, o, h, d)
          PROVE  FALSE
        <3>1. /\ UNCHANGED runs /\ ruling[h].disposition \notin Flagging
              /\ ruling' = [ruling EXCEPT ![h] = Recorded(o, d)]
            BY <2>3 DEF Decide, Rule
        <3>2. \A g : g # h => ruling'[g] = ruling[g]
            BY <2>0, <3>1 DEF ScreeningTypeOK
        <3>3. \A g : ruling[g].disposition \in Flagging => ruling'[g].disposition \in Flagging
            BY <3>1, <3>2
        <3> QED BY <1>1, <3>1, <3>3, RulingKeepsTheFlag
    <2>4. ASSUME NEW t \in Requests, NEW o \in Officers, NEW h \in Hits, ConfirmTrueMatch(t, o, h)
          PROVE  FALSE
        <3>1. UNCHANGED runs /\ ruling' = [ruling EXCEPT ![h] = Ruling("TRUE_MATCH", ruling[h].by, o)]
            BY <2>4 DEF ConfirmTrueMatch, Rule
        <3>2. \A g : g # h => ruling'[g] = ruling[g]
            BY <2>0, <3>1 DEF ScreeningTypeOK
        <3>3. ruling'[h].disposition \in Flagging
            BY <2>0, <3>1 DEF ScreeningTypeOK, Ruling, Flagging
        <3>4. \A g : ruling[g].disposition \in Flagging => ruling'[g].disposition \in Flagging
            BY <3>2, <3>3
        <3> QED BY <1>1, <3>1, <3>4, RulingKeepsTheFlag
    <2>5. ASSUME NEW t \in Requests, Sync(t) \/ Die(t) PROVE FALSE
        BY <2>1, <2>5 DEF Sync, ReadStanding, ReadLatestResult, ConcludeReview, RecordResult, Die
    <2>6. ~StartCycle /\ ~UNCHANGED screeningVars
        BY <2>1 DEF StartCycle, screeningVars
    <2>7. ASSUME NEW i \in DOMAIN results, NEW verdict \in {"ACCEPTED", "REJECTED"},
                 ReviewByHand(i, verdict)
          PROVE  FALSE
        BY <2>1, <2>7 DEF ReviewByHand
    <2> QED BY <1>1, <2>2, <2>3, <2>4, <2>5, <2>6, <2>7 DEF ScreeningNext
<1>2. ScreeningInv /\ [ScreeningNext]_screeningVars => [Flagged /\ ~Flagged' => Lifted]_screeningVars
    BY <1>1
<1> QED BY <1>2, ScreeningInvariant, PTL DEF ScreeningSpec, OnlyOfficersLiftTheFlag

-----------------------------------------------------------------------------
(* Bank accounts.                                                          *)

\* A change is of an earlier version, which was verified when it was proposed
\* and so is verified or retired for good.
ChangeOK(j) ==
    LET i == accounts[j].replaces
    IN  i # 0 => i \in DOMAIN accounts /\ i < j /\ accounts[i].status \in {"VERIFIED", "INACTIVE"}

BankInv ==
    /\ TypeOK
    /\ \A j \in DOMAIN accounts : ChangeOK(j)
    /\ OneVersionInForce

-----------------------------------------------------------------------------
LEMMA TakesFreePrimary ==
    ASSUME NEW i, TakesPrimary(i), ~Refused(i)
    PROVE  PrimaryIn(accounts[i].currency) \subseteq Retired(i)
BY DEF Refused

\* What an operation other than Propose must keep: the versions stay, with
\* their currencies and what they replace.
SameVersions ==
    /\ accounts' \in Seq(Account)
    /\ DOMAIN accounts' = DOMAIN accounts
    /\ \A i \in DOMAIN accounts : /\ accounts'[i].currency = accounts[i].currency
                                  /\ accounts'[i].replaces = accounts[i].replaces

\* No version is verified that was not awaiting it, a settled one never waits
\* again, and a rejected one stays so.
OnlyForward(i) ==
    /\ accounts'[i].status = "VERIFIED" => accounts[i].status \in {"VERIFIED", "PENDING_VERIFICATION"}
    /\ accounts[i].status \in {"VERIFIED", "INACTIVE"} => accounts'[i].status \in {"VERIFIED", "INACTIVE"}
    /\ accounts[i].status = "INACTIVE" => accounts'[i].status = "INACTIVE"
    /\ accounts[i].status = "REJECTED" => accounts'[i].status = "REJECTED"
    /\ accounts'[i].status \notin Waiting \union {"REJECTED"} /\ accounts[i].status \in Waiting =>
           LET r == accounts[i].replaces
           IN  r \in DOMAIN accounts => accounts'[r].status # "VERIFIED"

LEMMA ForwardKeepsVersions ==
    ASSUME BankInv, SameVersions, \A i \in DOMAIN accounts : OnlyForward(i)
    PROVE  (\A j \in DOMAIN accounts' : ChangeOK(j)') /\ OneVersionInForce'
<1>1. \A j \in DOMAIN accounts' : ChangeOK(j)'
  BY DEF BankInv, SameVersions, OnlyForward, ChangeOK
<1>2. ASSUME NEW i \in DOMAIN accounts,
             NEW j \in DOMAIN accounts, NEW k \in DOMAIN accounts,
             accounts'[j].replaces = i, accounts'[k].replaces = i,
             accounts'[j].status # "REJECTED", accounts'[k].status # "REJECTED"
      PROVE  /\ j = k
             /\ accounts'[j].status \notin Waiting => accounts'[i].status # "VERIFIED"
  <2>1. /\ accounts[j].replaces = i /\ accounts[k].replaces = i
        /\ accounts[j].status # "REJECTED" /\ accounts[k].status # "REJECTED"
    BY <1>2 DEF SameVersions, OnlyForward
  <2>2. j = k
    BY <2>1 DEF BankInv, OneVersionInForce, ChangesOf
  <2>3. CASE accounts[j].status \notin Waiting /\ accounts'[j].status \notin Waiting
    <3>1. accounts[i].status # "VERIFIED"
      BY <2>1, <2>3 DEF BankInv, OneVersionInForce, ChangesOf, IsVerified
    <3>2. i # 0 /\ accounts[i].status \in {"VERIFIED", "INACTIVE"}
      BY <2>1 DEF BankInv, ChangeOK, TypeOK
    <3> QED BY <2>2, <3>1, <3>2 DEF OnlyForward
  <2>4. CASE accounts[j].status \in Waiting /\ accounts'[j].status \notin Waiting
    BY <1>2, <2>1, <2>2, <2>4 DEF OnlyForward
  <2> QED BY <2>2, <2>3, <2>4
<1>3. OneVersionInForce'
  BY <1>2 DEF SameVersions, OneVersionInForce, ChangesOf, IsVerified
<1> QED BY <1>1, <1>3

LEMMA RowsUpdated ==
    ASSUME NEW S, NEW s \in Seq(S), NEW f \in [DOMAIN s -> S]
    PROVE  f \in Seq(S) /\ DOMAIN f = DOMAIN s
<1>1. PICK n \in Nat : DOMAIN s = 1 .. n
  OBVIOUS
<1> QED BY <1>1

\* A row that an operation other than Propose leaves: the same version still.
Kept(j) ==
    /\ accounts'[j] \in Account
    /\ accounts'[j].currency = accounts[j].currency
    /\ accounts'[j].replaces = accounts[j].replaces

\* What an operation makes of a version.
Edited(j, st, p) == Kept(j) /\ accounts'[j].status = st /\ accounts'[j].primary = p

LEMMA KeptRows ==
    ASSUME TypeOK, accounts' = [j \in DOMAIN accounts |-> accounts'[j]],
           \A j \in DOMAIN accounts : Kept(j)
    PROVE  SameVersions
<1>1. accounts' \in [DOMAIN accounts -> Account]
  BY DEF Kept
<1>2. accounts' \in Seq(Account) /\ DOMAIN accounts' = DOMAIN accounts
  BY <1>1, RowsUpdated DEF TypeOK
<1> QED BY <1>2 DEF SameVersions, Kept

\* The types and the constraints survive a step that raises no flag.
NoNewPrimary(i) ==
    accounts'[i].primary => accounts[i].primary /\ accounts'[i].status = "VERIFIED"

LEMMA TypesWithoutNewPrimary ==
    ASSUME TypeOK, SameVersions, \A i \in DOMAIN accounts : NoNewPrimary(i)
    PROVE  TypeOK'
BY DEF TypeOK, SameVersions, NoNewPrimary, IsVerified

-----------------------------------------------------------------------------
\* The operations that take a version a step further. In each, the flag of at
\* most one version is raised, and its currency has no other.

LEMMA ApproveEdits ==
    ASSUME TypeOK, NEW person \in People, NEW i \in DOMAIN accounts, Approve(person, i),
           NEW j \in DOMAIN accounts
    PROVE  Edited(j, IF j = i THEN "PENDING_VERIFICATION" ELSE accounts[j].status,
                  accounts[j].primary)
<1>1. accounts[j] \in Account /\ accounts[i] \in Account
  BY DEF TypeOK
<1> DEFINE b == [accounts[i] EXCEPT !.status = "PENDING_VERIFICATION", !.approver = person]
<1>2. accounts'[j] = IF j = i THEN b ELSE accounts[j]
  BY DEF Approve
<1>3. /\ b \in Account /\ b.status = "PENDING_VERIFICATION"
      /\ b.currency = accounts[i].currency /\ b.replaces = accounts[i].replaces
      /\ b.primary = accounts[i].primary
  BY <1>1 DEF Account, Statuses
<1> HIDE DEF b
<1> QED BY <1>1, <1>2, <1>3 DEF Edited, Kept

LEMMA ApproveKeeps ==
    ASSUME BankInv, NEW person \in People, NEW i \in DOMAIN accounts, Approve(person, i)
    PROVE  BankInv'
<1>1. \A j \in DOMAIN accounts :
          Edited(j, IF j = i THEN "PENDING_VERIFICATION" ELSE accounts[j].status,
                 accounts[j].primary)
  BY ApproveEdits DEF BankInv
<1>2. SameVersions
  <2>1. accounts' = [j \in DOMAIN accounts |-> accounts'[j]]
    BY DEF Approve
  <2> QED BY <1>1, <2>1, KeptRows DEF BankInv, Edited
<1>3. \A j \in DOMAIN accounts : OnlyForward(j)
  BY <1>1 DEF Edited, Approve, OnlyForward, Waiting
<1>4. \A j \in DOMAIN accounts : NoNewPrimary(j)
  BY <1>1 DEF BankInv, TypeOK, Edited, Approve, NoNewPrimary, IsVerified
<1>5. TypeOK'
  BY <1>2, <1>4, TypesWithoutNewPrimary DEF BankInv
<1> QED BY <1>2, <1>3, <1>5, ForwardKeepsVersions DEF BankInv

LEMMA RejectEdits ==
    ASSUME TypeOK, NEW i \in DOMAIN accounts, Reject(i), NEW j \in DOMAIN accounts
    PROVE  Edited(j, IF j = i THEN "REJECTED" ELSE accounts[j].status, accounts[j].primary)
<1>1. accounts[j] \in Account /\ accounts[i] \in Account
  BY DEF TypeOK
<1>2. accounts'[j] = IF j = i THEN [accounts[i] EXCEPT !.status = "REJECTED"] ELSE accounts[j]
  BY DEF Reject
<1> QED BY <1>1, <1>2 DEF Edited, Kept, Account, Statuses

LEMMA RejectKeeps ==
    ASSUME BankInv, NEW i \in DOMAIN accounts, Reject(i)
    PROVE  BankInv'
<1>1. \A j \in DOMAIN accounts :
          Edited(j, IF j = i THEN "REJECTED" ELSE accounts[j].status, accounts[j].primary)
  BY RejectEdits DEF BankInv
<1>2. SameVersions
  <2>1. accounts' = [j \in DOMAIN accounts |-> accounts'[j]]
    BY DEF Reject
  <2> QED BY <1>1, <2>1, KeptRows DEF BankInv, Edited
<1>3. \A j \in DOMAIN accounts : OnlyForward(j)
  BY <1>1 DEF Edited, Reject, OnlyForward, Waiting
<1>4. \A j \in DOMAIN accounts : NoNewPrimary(j)
  BY <1>1 DEF BankInv, TypeOK, Edited, Reject, NoNewPrimary, IsVerified, Waiting
<1>5. TypeOK'
  BY <1>2, <1>4, TypesWithoutNewPrimary DEF BankInv
<1> QED BY <1>2, <1>3, <1>5, ForwardKeepsVersions DEF BankInv

LEMMA DeactivateEdits ==
    ASSUME TypeOK, NEW i \in DOMAIN accounts, Deactivate(i), NEW j \in DOMAIN accounts
    PROVE  Edited(j, IF j = i THEN "INACTIVE" ELSE accounts[j].status,
                  IF j = i THEN FALSE ELSE accounts[j].primary)
<1>1. accounts[j] \in Account /\ accounts[i] \in Account
  BY DEF TypeOK
<1> DEFINE b == [accounts[i] EXCEPT !.status = "INACTIVE", !.primary = FALSE]
<1>2. accounts'[j] = IF j = i THEN b ELSE accounts[j]
  BY DEF Deactivate
<1>3. /\ b \in Account /\ b.status = "INACTIVE" /\ b.primary = FALSE
      /\ b.currency = accounts[i].currency /\ b.replaces = accounts[i].replaces
  BY <1>1 DEF Account, Statuses
<1> HIDE DEF b
<1> QED BY <1>1, <1>2, <1>3 DEF Edited, Kept

LEMMA DeactivateKeeps ==
    ASSUME BankInv, NEW i \in DOMAIN accounts, Deactivate(i)
    PROVE  BankInv'
<1>1. \A j \in DOMAIN accounts :
          Edited(j, IF j = i THEN "INACTIVE" ELSE accounts[j].status,
                 IF j = i THEN FALSE ELSE accounts[j].primary)
  BY DeactivateEdits DEF BankInv
<1>2. SameVersions
  <2>1. accounts' = [j \in DOMAIN accounts |-> accounts'[j]]
    BY DEF Deactivate
  <2> QED BY <1>1, <2>1, KeptRows DEF BankInv, Edited
<1>3. \A j \in DOMAIN accounts : OnlyForward(j)
  BY <1>1 DEF Edited, Deactivate, OnlyForward, Waiting, IsVerified
<1>4. \A j \in DOMAIN accounts : NoNewPrimary(j)
  BY <1>1 DEF BankInv, TypeOK, Edited, Deactivate, NoNewPrimary, IsVerified
<1>5. TypeOK'
  BY <1>2, <1>4, TypesWithoutNewPrimary DEF BankInv
<1> QED BY <1>2, <1>3, <1>5, ForwardKeepsVersions DEF BankInv

\* Which versions are primary once i has been made it.
GivenFlag(i, j) == j = i \/ (accounts[j].primary /\ j \notin Outgoing(i))

LEMMA SetPrimaryEdits ==
    ASSUME TypeOK, NEW i \in DOMAIN accounts, SetPrimary(i), NEW j \in DOMAIN accounts
    PROVE  Edited(j, accounts[j].status, GivenFlag(i, j))
<1>1. accounts[j] \in Account
  BY DEF TypeOK
<1>2. accounts'[j] = [accounts[j] EXCEPT !.primary = GivenFlag(i, j)]
  BY DEF SetPrimary, GivenFlag
<1>3. GivenFlag(i, j) \in BOOLEAN
  BY <1>1 DEF Account, GivenFlag
<1> QED BY <1>1, <1>2, <1>3 DEF Edited, Kept, Account

LEMMA SetPrimaryKeeps ==
    ASSUME BankInv, NEW i \in DOMAIN accounts, SetPrimary(i)
    PROVE  BankInv'
<1>1. \A j \in DOMAIN accounts : Edited(j, accounts[j].status, GivenFlag(i, j))
  BY SetPrimaryEdits DEF BankInv
<1>2. SameVersions
  <2>1. accounts' = [j \in DOMAIN accounts |-> accounts'[j]]
    BY DEF SetPrimary
  <2> QED BY <1>1, <2>1, KeptRows DEF BankInv, Edited
<1>3. \A j \in DOMAIN accounts : OnlyForward(j)
  BY <1>1 DEF Edited, OnlyForward, Waiting
<1>4. \A j \in DOMAIN accounts :
          /\ accounts'[j].status = accounts[j].status
          /\ accounts'[j].currency = accounts[j].currency
          /\ accounts'[j].primary =>
                j = i \/ (accounts[j].primary /\ accounts[j].currency # accounts[i].currency)
  <2>1. \A j \in DOMAIN accounts : accounts'[j].primary => GivenFlag(i, j)
    BY <1>1 DEF Edited
  <2>2. \A j \in DOMAIN accounts : GivenFlag(i, j) =>
            j = i \/ (accounts[j].primary /\ accounts[j].currency # accounts[i].currency)
    BY DEF GivenFlag, Outgoing, PrimaryIn
  <2> QED BY <1>1, <2>1, <2>2 DEF Edited, Kept
<1>5. TypeOK'
  <2>1. \A j \in DOMAIN accounts : accounts'[j].primary => accounts'[j].status = "VERIFIED"
    BY <1>4 DEF BankInv, TypeOK, SetPrimary, IsVerified
  <2>2. ASSUME NEW j \in DOMAIN accounts, NEW k \in DOMAIN accounts, j # k,
               accounts'[j].primary, accounts'[k].primary
        PROVE  accounts[j].currency # accounts[k].currency
    BY <1>4, <2>2 DEF BankInv, TypeOK
  <2> QED BY <1>2, <2>1, <2>2 DEF TypeOK, SameVersions, IsVerified
<1> QED BY <1>2, <1>3, <1>5, ForwardKeepsVersions DEF BankInv

\* What i's verification makes of j.
VerifiedStatus(i, j) ==
    IF j = i THEN "VERIFIED" ELSE IF j \in Retired(i) THEN "INACTIVE" ELSE accounts[j].status

VerifiedFlag(i, j) ==
    IF j = i THEN TakesPrimary(i) ELSE IF j \in Retired(i) THEN FALSE ELSE accounts[j].primary

LEMMA VerifyEdits ==
    ASSUME TypeOK, NEW i \in DOMAIN accounts, Verify(i), NEW j \in DOMAIN accounts
    PROVE  Edited(j, VerifiedStatus(i, j), VerifiedFlag(i, j))
<1>1. accounts[j] \in Account
  BY DEF TypeOK
<1>2. /\ accounts[j].status \in Statuses /\ accounts[j].primary \in BOOLEAN
      /\ accounts[j] = [accounts[j] EXCEPT !.status = accounts[j].status,
                                           !.primary = accounts[j].primary]
  BY <1>1 DEF Account
<1> DEFINE b == [accounts[j] EXCEPT !.status = VerifiedStatus(i, j), !.primary = VerifiedFlag(i, j)]
<1>3. accounts'[j] = b
  BY <1>2 DEF Verify, VerifiedStatus, VerifiedFlag
<1>4. VerifiedStatus(i, j) \in Statuses
  BY <1>2 DEF Statuses, VerifiedStatus
<1>5. VerifiedFlag(i, j) \in BOOLEAN
  <2>1. TakesPrimary(i) \in BOOLEAN
    BY DEF TakesPrimary
  <2> QED BY <2>1, <1>2 DEF VerifiedFlag
<1>6. /\ b \in Account /\ b.status = VerifiedStatus(i, j) /\ b.primary = VerifiedFlag(i, j)
      /\ b.currency = accounts[j].currency /\ b.replaces = accounts[j].replaces
  BY <1>1, <1>4, <1>5 DEF Account
<1> HIDE DEF b
<1> QED BY <1>3, <1>6 DEF Edited, Kept

LEMMA VerifyKeeps ==
    ASSUME BankInv, NEW i \in DOMAIN accounts, Verify(i)
    PROVE  BankInv'
<1>0. i \notin Retired(i)
  BY DEF Verify, Retired, IsVerified
<1>1. \A j \in DOMAIN accounts : Edited(j, VerifiedStatus(i, j), VerifiedFlag(i, j))
  BY VerifyEdits DEF BankInv
<1>2. SameVersions
  <2>1. accounts' = [j \in DOMAIN accounts |-> accounts'[j]]
    BY DEF Verify
  <2> QED BY <1>1, <2>1, KeptRows DEF BankInv, Edited
<1>3. \A j \in DOMAIN accounts : accounts'[j].status = VerifiedStatus(i, j)
  BY <1>1 DEF Edited
<1>4. \A j \in DOMAIN accounts : OnlyForward(j)
  <2> SUFFICES ASSUME NEW j \in DOMAIN accounts PROVE OnlyForward(j)
    OBVIOUS
  <2>1. CASE j = i
    <3>1. ASSUME accounts[i].replaces \in DOMAIN accounts, i # accounts[i].replaces
          PROVE  accounts'[accounts[i].replaces].status # "VERIFIED"
      BY <1>3, <3>1 DEF VerifiedStatus, Retired, IsVerified
    <3>2. accounts[i].replaces \in DOMAIN accounts => i # accounts[i].replaces
      BY DEF BankInv, TypeOK, ChangeOK
    <3> QED BY <1>3, <2>1, <3>1, <3>2 DEF VerifiedStatus, Verify, OnlyForward, Waiting
  <2>2. CASE j # i
    BY <1>3, <2>2 DEF VerifiedStatus, OnlyForward, Waiting, Retired, IsVerified
  <2> QED BY <2>1, <2>2
<1>5. \A j \in DOMAIN accounts : accounts'[j].primary = VerifiedFlag(i, j)
  BY <1>1 DEF Edited
<1>6. \A j \in DOMAIN accounts : accounts'[j].primary => accounts'[j].status = "VERIFIED"
  BY <1>3, <1>5 DEF VerifiedStatus, VerifiedFlag, BankInv, TypeOK, IsVerified
<1>7. ASSUME NEW j \in DOMAIN accounts, NEW k \in DOMAIN accounts, j # k,
             accounts'[j].primary, accounts'[k].primary
      PROVE  accounts[j].currency # accounts[k].currency
  <2>1. TakesPrimary(i) => PrimaryIn(accounts[i].currency) \subseteq Retired(i)
    BY TakesFreePrimary DEF Verify
  <2>2. CASE j # i /\ k # i
    BY <1>5, <1>7, <2>2 DEF VerifiedFlag, BankInv, TypeOK
  <2>3. CASE j = i
    BY <1>5, <1>7, <2>1, <2>3 DEF VerifiedFlag, PrimaryIn
  <2>4. CASE k = i
    BY <1>5, <1>7, <2>1, <2>4 DEF VerifiedFlag, PrimaryIn
  <2> QED BY <2>2, <2>3, <2>4
<1>8. TypeOK'
  BY <1>2, <1>6, <1>7 DEF TypeOK, SameVersions, IsVerified
<1> QED BY <1>2, <1>4, <1>8, ForwardKeepsVersions DEF BankInv

\* A new version is last and waits: nothing replaces it yet, and it replaces
\* a verified one that has no other standing change.
LEMMA ProposeKeeps ==
    ASSUME BankInv, NEW person \in People, NEW c \in Currencies,
           NEW i \in {0} \union DOMAIN accounts, Propose(person, c, i)
    PROVE  BankInv'
<1> DEFINE n == Len(accounts) + 1
<1>1. /\ accounts \in Seq(Account) /\ n \in Nat /\ n # 0 /\ n \notin DOMAIN accounts
      /\ DOMAIN accounts = 1 .. n - 1 /\ DOMAIN accounts' = DOMAIN accounts \union {n}
      /\ \A j \in DOMAIN accounts : accounts'[j] = accounts[j]
  BY DEF BankInv, TypeOK, Propose
<1>2. accounts'[n] = [currency |-> c, status |-> StatusAsProposed, primary |-> FALSE,
                      replaces |-> i, proposer |-> person, approver |-> NoOne]
  BY <1>1 DEF Propose
<1>3. accounts'[n] \in Account /\ accounts'[n].status \in Waiting
  BY <1>1, <1>2 DEF Account, StatusAsProposed, Statuses, Waiting
<1>4. accounts' \in Seq(Account)
  BY <1>1, <1>2, <1>3 DEF Propose
<1>5. TypeOK'
  BY <1>1, <1>2, <1>4 DEF BankInv, TypeOK, IsVerified
<1>6. \A j \in DOMAIN accounts' : ChangeOK(j)'
  BY <1>1, <1>2 DEF BankInv, ChangeOK, Propose, IsVerified
<1>7. ASSUME NEW r \in DOMAIN accounts',
             NEW j \in DOMAIN accounts', NEW k \in DOMAIN accounts',
             accounts'[j].replaces = r, accounts'[k].replaces = r,
             accounts'[j].status # "REJECTED", accounts'[k].status # "REJECTED"
      PROVE  /\ j = k
             /\ accounts'[j].status \notin Waiting => accounts'[r].status # "VERIFIED"
  <2>1. r \in DOMAIN accounts
    BY <1>1, <1>2, <1>7 DEF BankInv, ChangeOK
  <2>2. CASE j # n /\ k # n
    BY <1>1, <1>7, <2>1, <2>2 DEF BankInv, OneVersionInForce, ChangesOf, IsVerified
  <2>3. CASE r # i
    BY <1>1, <1>2, <1>7, <2>1, <2>2, <2>3
  <2>4. CASE r = i
    <3>1. accounts[i].status = "VERIFIED" /\ NoOpenChange(i)
      BY <2>1, <2>4, <1>1 DEF Propose, IsVerified
    <3>2. \A m \in DOMAIN accounts : accounts[m].replaces = i => accounts[m].status = "REJECTED"
      BY <2>1, <2>4, <3>1 DEF BankInv, OneVersionInForce, ChangesOf, IsVerified, NoOpenChange
    <3> QED BY <1>1, <1>2, <1>3, <1>7, <2>4, <3>2
  <2> QED BY <2>3, <2>4
<1>8. OneVersionInForce'
  BY <1>7 DEF OneVersionInForce, ChangesOf, IsVerified
<1> QED BY <1>5, <1>6, <1>8 DEF BankInv

-----------------------------------------------------------------------------
(* The accounts of a company are, at any time, versions of which at most   *)
(* one is in force per account, whatever is proposed, approved, rejected,  *)
(* verified, made primary or deactivated.                                  *)
THEOREM BankInvariant == Spec => []BankInv
<1>1. Init => BankInv
  BY DEF Init, BankInv, TypeOK, OneVersionInForce, ChangesOf
<1>2. BankInv /\ [Next]_accounts => BankInv'
  <2> SUFFICES ASSUME BankInv, [Next]_accounts PROVE BankInv'
    OBVIOUS
  <2>1. CASE UNCHANGED accounts
    BY <2>1 DEF BankInv, TypeOK, ChangeOK, OneVersionInForce, ChangesOf, IsVerified
  <2>2. CASE Next
    BY <2>2, ProposeKeeps, ApproveKeeps, RejectKeeps, VerifyKeeps, SetPrimaryKeeps,
       DeactivateKeeps DEF Next
  <2> QED BY <2>1, <2>2
<1> QED BY <1>1, <1>2, PTL DEF Spec

(* Only a verified account is primary, and one per currency: what the      *)
(* table's constraints say, kept by the operations themselves but for the  *)
(* one change that the constraint refuses.                                 *)
THEOREM BankTypes == Spec => []TypeOK
<1>1. BankInv => TypeOK
  BY DEF BankInv
<1> QED BY <1>1, BankInvariant, PTL

(* An account has one change in flight or in force, and is retired by it.  *)
THEOREM OneVersionInForceHolds == Spec => []OneVersionInForce
<1>1. BankInv => OneVersionInForce
  BY DEF BankInv
<1> QED BY <1>1, BankInvariant, PTL

-----------------------------------------------------------------------------
(* The primary account of a currency is given up by nothing but its own    *)
(* deactivation or a change of it to another currency: each other step     *)
(* leaves the flag on it or hands it to one of the same currency.          *)
THEOREM PaidUntilGivenUpHolds == Spec => PaidUntilGivenUp
<1> DEFINE GivenUp(c) == \E i \in PrimaryIn(c) :
                             \/ Deactivate(i)
                             \/ \E j \in ChangesOf(i) : Verify(j) /\ accounts[j].currency # c
<1>1. ASSUME BankInv, [Next]_accounts, NEW c \in Currencies,
             PrimaryIn(c) # {}, PrimaryIn(c)' = {}
      PROVE  GivenUp(c)
  <2>1. PICK i \in DOMAIN accounts : accounts[i].primary /\ accounts[i].currency = c
    BY <1>1 DEF PrimaryIn
  <2>2. accounts[i].status = "VERIFIED" /\ TypeOK
    BY <1>1, <2>1 DEF BankInv, TypeOK, IsVerified
  <2>3. \A j \in DOMAIN accounts' : accounts'[j].primary => accounts'[j].currency # c
    BY <1>1 DEF PrimaryIn
  <2>4. ASSUME UNCHANGED accounts PROVE FALSE
    BY <2>1, <2>3, <2>4
  <2>5. ASSUME NEW person \in People, NEW d \in Currencies, NEW k \in {0} \union DOMAIN accounts,
               Propose(person, d, k)
        PROVE  FALSE
    <3>1. i \in DOMAIN accounts' /\ accounts'[i] = accounts[i]
      BY <2>2, <2>5 DEF TypeOK, Propose
    <3> QED BY <2>1, <2>3, <3>1
  <2>6. ASSUME NEW person \in People, NEW k \in DOMAIN accounts, Approve(person, k) PROVE FALSE
    BY <2>1, <2>2, <2>3, <2>6, ApproveEdits DEF Edited, Kept, Approve
  <2>7. ASSUME NEW k \in DOMAIN accounts, Reject(k) PROVE FALSE
    BY <2>1, <2>2, <2>3, <2>7, RejectEdits DEF Edited, Kept, Reject
  <2>8. ASSUME NEW k \in DOMAIN accounts, SetPrimary(k) PROVE FALSE
    <3>1. DOMAIN accounts' = DOMAIN accounts
      BY <2>8 DEF SetPrimary
    <3>2. /\ Edited(i, accounts[i].status, GivenFlag(k, i))
          /\ Edited(k, accounts[k].status, GivenFlag(k, k))
      BY <2>2, <2>8, SetPrimaryEdits
    <3>3. accounts'[k].primary /\ accounts'[k].currency = accounts[k].currency
      BY <3>2 DEF Edited, Kept, GivenFlag
    <3>4. accounts[k].currency # c => accounts'[i].primary /\ accounts'[i].currency = c
      BY <2>1, <3>2 DEF Edited, Kept, GivenFlag, Outgoing, PrimaryIn
    <3> QED BY <2>3, <3>1, <3>3, <3>4
  <2>9. ASSUME NEW k \in DOMAIN accounts, Deactivate(k) PROVE k = i
    BY <2>1, <2>2, <2>3, <2>9, DeactivateEdits DEF Edited, Kept, Deactivate
  <2>10. ASSUME NEW k \in DOMAIN accounts, Verify(k)
         PROVE  k \in ChangesOf(i) /\ accounts[k].currency # c
    <3>1. DOMAIN accounts' = DOMAIN accounts /\ k # i
      BY <2>2, <2>10 DEF Verify
    <3>2. /\ Edited(i, VerifiedStatus(k, i), VerifiedFlag(k, i))
          /\ Edited(k, VerifiedStatus(k, k), VerifiedFlag(k, k))
      BY <2>2, <2>10, VerifyEdits
    <3>3. i \in Retired(k)
      BY <2>1, <2>3, <3>1, <3>2 DEF Edited, Kept, VerifiedFlag
    <3>4. TakesPrimary(k)
      BY <2>1, <3>3 DEF TakesPrimary
    <3>5. accounts'[k].primary /\ accounts'[k].currency = accounts[k].currency
      BY <3>2, <3>4 DEF Edited, Kept, VerifiedFlag
    <3> QED BY <2>3, <3>1, <3>3, <3>5 DEF Retired, ChangesOf
  <2> QED BY <1>1, <2>1, <2>4, <2>5, <2>6, <2>7, <2>8, <2>9, <2>10 DEF Next, PrimaryIn
<1>2. BankInv /\ [Next]_accounts =>
          [\A c \in Currencies : PrimaryIn(c) # {} /\ PrimaryIn(c)' = {} => GivenUp(c)]_accounts
  BY <1>1
<1> QED BY <1>2, BankInvariant, PTL DEF Spec, PaidUntilGivenUp
=============================================================================
