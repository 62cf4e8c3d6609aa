---------------------------- MODULE Qualification ----------------------------
(***************************************************************************)
(* QualificationService's effect on the company row: the qualification     *)
(* gauge, final once QUALIFIED, and the move it causes from LEAD to        *)
(* PROSPECT, and on to CUSTOMER when the background check is already Clear.*)
(* The criterion results a reviewer records beside it never move the gauge.*)
(***************************************************************************)
EXTENDS CompanyRow

VARIABLE qualification

QualificationState == {"NOT_YET_REVIEWED", "NOT_QUALIFIED", "QUALIFIED"}
Outcomes == QualificationState \ {"NOT_YET_REVIEWED"}

QualificationTypeOK == qualification \in QualificationState
QualificationInit == qualification = "NOT_YET_REVIEWED"

\* Mutant: QUALIFIED is not final.
InPipeline == pipeline = "IN_PIPELINE"

(* _lock_profile refuses a buyer-only company, and QUALIFIED is final.     *)
OpenToReview == pipeline = "IN_PIPELINE" /\ qualification # "QUALIFIED"

\* Mutant: only the check's side of the promotion is made.
OutcomeWithoutPromotion(outcome) ==
    /\ qualification' = outcome
    /\ journey' = IF outcome = "QUALIFIED" /\ journey = "LEAD" THEN "PROSPECT" ELSE journey

(* _write_outcome: the gauge, the journey, the promotion; one transaction. *)
WriteOutcome(outcome) ==
    /\ qualification' = outcome
    /\ journey' = IF outcome = "QUALIFIED" /\ journey = "LEAD"
                    THEN PromoteIfReady("PROSPECT", gauge, expires)
                    ELSE journey

(* A reviewer's decision. QUALIFIED makes the company somebody's.          *)
RecordOutcome(actor, outcome, target) ==
    /\ active[actor]
    /\ OpenToReview
    /\ IF outcome = "QUALIFIED" THEN EnsureRM(actor, target) ELSE rm' = rm
    /\ WriteOutcome(outcome)
    /\ UNCHANGED <<pipeline, gauge, expires, reviewer, staffVars, now>>

(* The RXIL intake: a partner hands over a company it already qualified.   *)
RecordPartnerDecision ==
    /\ OpenToReview
    /\ WriteOutcome("QUALIFIED")
    /\ UNCHANGED <<pipeline, rm, gauge, expires, reviewer, staffVars, now>>

QualificationNext ==
    \/ \E actor \in Staff, outcome \in Outcomes, target \in Staff \union {NoUser} :
          RecordOutcome(actor, outcome, target)
    \/ RecordPartnerDecision
=============================================================================
