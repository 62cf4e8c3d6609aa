------------------------------ MODULE Sanctions ------------------------------
(***************************************************************************)
(* Sanctions screening of one company: runs of its subjects against the    *)
(* lists, rulings on their possible matches, and the SANCTIONS result that *)
(* SanctionsScreeningService derives from them.  A run or a ruling commits *)
(* first; the result follows in transactions of its own, from what was     *)
(* read with no lock, so requests meet there and may die before it.        *)
(***************************************************************************)
EXTENDS Naturals, Sequences, FiniteSetsExt

CONSTANTS
    Officers,   \* who may record runs and rulings (screening:decide)
    Heads,      \* those who hold compliance:approve_true_match
    TrueMatchMode, \* CRM_SANCTIONS_TRUE_MATCH_APPROVAL
    NoOfficer,
    Subjects,   \* the company, its directors and its owners
    Company,    \* the company itself as a subject
    Hits,       \* the possible matches the runs of a model may find
    Recordable, \* what an officer may record on one
    Requests,   \* each is made once
    Mortal,     \* the requests whose process may die half way
    MaxCycles

ASSUME SanctionsAssumption ==
    /\ Heads \subseteq Officers
    /\ NoOfficer \notin Officers
    /\ TrueMatchMode \in {"SINGLE", "SECOND_OFFICER", "HEAD"}
    /\ Company \in Subjects
    /\ Recordable \subseteq {"OPEN", "FALSE_POSITIVE", "TRUE_MATCH", "ESCALATED"}
    /\ Mortal \subseteq Requests
    /\ MaxCycles \in Nat \ {0}

VARIABLES
    cycle,      \* the current check cycle; rows of before the first are its own
    runs,       \* in the order of performed_at; unrecorded until inserted
    ruling,     \* each hit's current disposition
    results,    \* the SANCTIONS results this service wrote, newest last
    pc,         \* where each request is
    seen,       \* the standing, and the result or run, a request is about
    alone       \* the request, if any, nothing else has happened since

screeningVars == <<cycle, runs, ruling, results, pc, seen, alone>>

Dispositions == {"OPEN", "FALSE_POSITIVE", "TRUE_MATCH_PROPOSED", "TRUE_MATCH", "ESCALATED"}
Flagging == {"TRUE_MATCH_PROPOSED", "TRUE_MATCH"}
Unsettled == {"OPEN", "ESCALATED", "TRUE_MATCH_PROPOSED"}
Outcomes == {"PASSED", "REVIEW", "FAILED"}

Nothing == [standing |-> "UNKNOWN", at |-> 0]
Someone == Officers \union {NoOfficer}
Ruling(d, by, approver) == [disposition |-> d, by |-> by, approver |-> approver]
NotFound == Ruling("NOT_FOUND", NoOfficer, NoOfficer)
Found == {h \in Hits : ruling[h] # NotFound}

Points == {"idle", "insert", "sync", "compare", "conclude", "record", "done"}

ScreeningTypeOK ==
    /\ cycle \in 1..MaxCycles
    /\ runs \in Seq([subject : Subjects, cycle : 1..MaxCycles,
                     hits : SUBSET Hits, recorded : BOOLEAN])
    /\ ruling \in [Hits -> [disposition : Dispositions, by : Someone, approver : Someone]
                             \union {NotFound}]
    /\ results \in Seq([cycle : 1..MaxCycles, status : Outcomes,
                        review : {"NONE", "ACCEPTED", "REJECTED"}])
    /\ pc \in [Requests -> Points]
    /\ seen \in [Requests -> [standing : Outcomes \union {"UNKNOWN"}, at : Nat]]
    /\ alone \in SUBSET Requests

ScreeningInit ==
    /\ cycle = 1
    /\ runs = <<>>
    /\ ruling = [h \in Hits |-> NotFound]
    /\ results = <<>>
    /\ pc = [t \in Requests |-> "idle"]
    /\ seen = [t \in Requests |-> Nothing]
    /\ alone = {}

-----------------------------------------------------------------------------
(* What is read of the runs, the rulings and the results.                  *)

\* in_cycle, whose legacy rule says that a row without a cycle is cycle 1's:
\* so is everything from before the first input of any kind opens it.
InCycle(c) == c = cycle

Newest(S) == IF S = {} THEN 0 ELSE Max(S)

RunsOf(s) == {i \in DOMAIN runs : runs[i].recorded /\ runs[i].subject = s}
RunsThisCycle(s) == {i \in RunsOf(s) : InCycle(runs[i].cycle)}

Screened == {s \in Subjects : RunsThisCycle(s) # {}}

HeadsOf(i) == {ruling[h].disposition : h \in runs[i].hits}

Outcome(i) ==
    IF "TRUE_MATCH" \in HeadsOf(i) THEN "FAILED"
    ELSE IF HeadsOf(i) \intersect Unsettled # {} THEN "REVIEW" ELSE "PASSED"

\* The worst outcome of the subjects' latest runs in the current cycle.
Standing ==
    LET outcomes == {Outcome(Newest(RunsThisCycle(s))) : s \in Screened}
    IN  IF Company \notin Screened THEN "UNKNOWN"
        ELSE IF "FAILED" \in outcomes THEN "FAILED"
        ELSE IF "REVIEW" \in outcomes THEN "REVIEW" ELSE "PASSED"

\* Mutant: the flag looks at the current cycle only.
FlaggedThisCycle ==
    \E s \in Screened : HeadsOf(Newest(RunsThisCycle(s))) \intersect Flagging # {}

\* The flag reads each subject's latest run of any cycle.
Flagged ==
    \E s \in Subjects : RunsOf(s) # {} /\ HeadsOf(Newest(RunsOf(s))) \intersect Flagging # {}

ResultsThisCycle == {i \in DOMAIN results : InCycle(results[i].cycle)}

\* check_state, over the results this service wrote.
CheckState ==
    LET latest == results[Newest(ResultsThisCycle)]
    IN  IF ResultsThisCycle = {} THEN "MISSING"
        ELSE IF latest.status # "REVIEW" THEN latest.status
        ELSE IF latest.review = "ACCEPTED" THEN "PASSED"
        ELSE IF latest.review = "REJECTED" THEN "FAILED" ELSE "PENDING"

-----------------------------------------------------------------------------
(* Where a request is.                                                     *)

Goto(t, point) == pc' = [pc EXCEPT ![t] = point]
Running == {t \in Requests : pc[t] \notin {"idle", "done"}}

\* A commit: t is alone from here on if no other request is under way.
Committed(t) ==
    /\ Goto(t, "sync")
    /\ seen' = [seen EXCEPT ![t] = Nothing]
    /\ alone' = {t} \ {u \in Requests : Running \ {u} # {}}

\* A step of t's on its way to a result, and what it keeps: whoever else was
\* alone is not any more.
Continues(t, point, keeps) ==
    /\ Goto(t, point)
    /\ seen' = [seen EXCEPT ![t] = IF point = "done" THEN Nothing ELSE keeps]
    /\ alone' = alone \intersect {t}

-----------------------------------------------------------------------------
(* A run is stamped with the time and the cycle, then inserted.            *)

BeginRun(t, s) ==
    /\ pc[t] = "idle"
    /\ runs' = Append(runs, [subject |-> s, cycle |-> cycle, hits |-> {}, recorded |-> FALSE])
    /\ Continues(t, "insert", [standing |-> "UNKNOWN", at |-> Len(runs) + 1])
    /\ UNCHANGED <<cycle, ruling, results>>

AsRecorded(d) == IF d = "TRUE_MATCH" /\ TrueMatchMode # "SINGLE" THEN "TRUE_MATCH_PROPOSED" ELSE d

\* Who decided is kept where it is read again: on a true match.
Recorded(o, d) ==
    Ruling(AsRecorded(d), IF d = "TRUE_MATCH" THEN o ELSE NoOfficer,
           IF AsRecorded(d) = "TRUE_MATCH" THEN o ELSE NoOfficer)

\* record_run: the hits it found, each with its first disposition.
InsertRun(t, o) ==
    /\ pc[t] = "insert"
    /\ \E found \in SUBSET (Hits \ Found) :
         /\ runs' = [runs EXCEPT ![seen[t].at].hits = found, ![seen[t].at].recorded = TRUE]
         /\ \E first \in [found -> Recordable] :
              ruling' = [h \in Hits |-> IF h \in found THEN Recorded(o, first[h]) ELSE ruling[h]]
    /\ Committed(t)
    /\ UNCHANGED <<cycle, results>>

-----------------------------------------------------------------------------
(* Rulings on a hit, each under the company's row lock.                    *)

Rule(t, h, row) ==
    /\ pc[t] = "idle"
    /\ ruling' = [ruling EXCEPT ![h] = row]
    /\ Committed(t)
    /\ UNCHANGED <<cycle, runs, results>>

Decide(t, o, h, d) ==
    /\ h \in Found
    /\ ruling[h].disposition \notin Flagging
    /\ AsRecorded(d) # ruling[h].disposition \/ d = "OPEN"
    /\ Rule(t, h, Recorded(o, d))

\* Mutant: any holder of the permission will do.
MayConfirmOwn(o, proposer) == TrueMatchMode = "HEAD" => o \in Heads

\* true_match_refusal.
MayConfirm(o, proposer) ==
    \/ TrueMatchMode = "SINGLE"
    \/ o # proposer /\ (TrueMatchMode = "HEAD" => o \in Heads)

ConfirmTrueMatch(t, o, h) ==
    /\ ruling[h].disposition = "TRUE_MATCH_PROPOSED"
    /\ MayConfirm(o, ruling[h].by)
    /\ Rule(t, h, Ruling("TRUE_MATCH", ruling[h].by, o))

RejectTrueMatch(t, o, h) ==
    /\ ruling[h].disposition = "TRUE_MATCH_PROPOSED"
    /\ MayConfirm(o, ruling[h].by)
    /\ Rule(t, h, Recorded(o, "OPEN"))

-----------------------------------------------------------------------------
(* _sync_company_result, after the commit.                                 *)

ReadStanding(t) ==
    /\ pc[t] = "sync"
    /\ Continues(t, IF Standing = "UNKNOWN" THEN "done" ELSE "compare",
                 [standing |-> Standing, at |-> 0])
    /\ UNCHANGED <<cycle, runs, ruling, results>>

\* Nothing to write: the latest result says so already, and no one ruled on it.
UpToDate(i, standing) == i # 0 /\ results[i].status = standing /\ results[i].review = "NONE"

Concludes(i, standing) ==
    i # 0 /\ results[i].status = "REVIEW" /\ results[i].review = "NONE" /\ standing # "REVIEW"

\* Mutant: the latest result of any cycle.
LatestResultEver == Len(results)

LatestResult == Newest(ResultsThisCycle)

ReadLatestResult(t) ==
    /\ pc[t] = "compare"
    /\ Continues(t, IF UpToDate(LatestResult, seen[t].standing) THEN "done"
                    ELSE IF Concludes(LatestResult, seen[t].standing) THEN "conclude"
                    ELSE "record",
                 [seen[t] EXCEPT !.at = LatestResult])
    /\ UNCHANGED <<cycle, runs, ruling, results>>

Verdict(standing) == IF standing = "PASSED" THEN "ACCEPTED" ELSE "REJECTED"

\* record_review, in a transaction of its own; refused, and the request with
\* it, when someone has reviewed the result meanwhile.
ConcludeReview(t) ==
    /\ pc[t] = "conclude"
    /\ IF results[seen[t].at].review = "NONE"
       THEN /\ results' = [results EXCEPT ![seen[t].at].review = Verdict(seen[t].standing)]
            /\ Continues(t, "record", seen[t])
       ELSE UNCHANGED results /\ Continues(t, "done", Nothing)
    /\ UNCHANGED <<cycle, runs, ruling>>

\* trigger_verification stamps the cycle that is current by now.
RecordResult(t) ==
    /\ pc[t] = "record"
    /\ results' = Append(results,
          [cycle |-> cycle, status |-> seen[t].standing, review |-> "NONE"])
    /\ Continues(t, "done", Nothing)
    /\ UNCHANGED <<cycle, runs, ruling>>

\* The process dies, or a statement fails: what is committed stays.
Die(t) ==
    /\ t \in Mortal \intersect Running
    /\ Goto(t, "done")
    /\ seen' = [seen EXCEPT ![t] = Nothing]
    /\ alone' = {}
    /\ UNCHANGED <<cycle, runs, ruling, results>>

-----------------------------------------------------------------------------
(* Others' doing: a Re-KYC, and reviews of the results by hand.            *)

\* The current cycle must hold an input, of any kind: one of another kind may
\* always be there.
StartCycle ==
    /\ cycle < MaxCycles
    /\ cycle' = cycle + 1
    /\ alone' = {}
    /\ UNCHANGED <<runs, ruling, results, pc, seen>>

\* record_review: of any result, the first or in place of the one before.
ReviewByHand(i, verdict) ==
    /\ results' = [results EXCEPT ![i].review = verdict]
    /\ alone' = {}
    /\ UNCHANGED <<cycle, runs, ruling, pc, seen>>

Sync(t) == ReadStanding(t) \/ ReadLatestResult(t) \/ ConcludeReview(t) \/ RecordResult(t)

ScreeningNext ==
    \/ \E t \in Requests :
         \/ \E s \in Subjects : BeginRun(t, s)
         \/ \E o \in Officers : InsertRun(t, o)
         \/ \E o \in Officers, h \in Hits, d \in Recordable : Decide(t, o, h, d)
         \/ \E o \in Officers, h \in Hits : ConfirmTrueMatch(t, o, h) \/ RejectTrueMatch(t, o, h)
         \/ Sync(t)
         \/ Die(t)
    \/ StartCycle
    \/ \E i \in DOMAIN results, verdict \in {"ACCEPTED", "REJECTED"} : ReviewByHand(i, verdict)

ScreeningSpec == ScreeningInit /\ [][ScreeningNext]_screeningVars

-----------------------------------------------------------------------------
(* A confirmed true match took two officers, in the modes that ask for two,*)
(* through however many proposals, rejections and fresh screenings.        *)
TwoOfficers ==
    \A h \in Hits :
        ruling[h].disposition = "TRUE_MATCH" /\ TrueMatchMode # "SINGLE" =>
            /\ ruling[h].approver \notin {ruling[h].by, NoOfficer}
            /\ TrueMatchMode = "HEAD" => ruling[h].approver \in Heads

(* What the service's result should say, given the standing.               *)
ResultAgrees ==
    /\ Standing = "REVIEW" => CheckState = "PENDING"
    /\ Standing \in {"PASSED", "FAILED"} => CheckState = Standing

(* _sync_company_result: whatever races, deaths and reviews went before, a *)
(* request that ends with nothing else having happened since its commit    *)
(* leaves the check saying what the screening says.                        *)
AloneSetsRight == \A t \in alone : pc[t] = "done" => ResultAgrees

(* company(): a proposed or confirmed match "keeps the company flagged"    *)
(* until the proposal is rejected or the subject screened again; a Re-KYC  *)
(* or a review of the result does not lift the flag.                       *)
OnlyOfficersLiftTheFlag ==
    [][Flagged /\ ~Flagged' =>
         \E t \in Requests, o \in Officers :
             InsertRun(t, o) \/ \E h \in Hits : RejectTrueMatch(t, o, h)]_screeningVars
=============================================================================
