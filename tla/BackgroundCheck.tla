--------------------------- MODULE BackgroundCheck ---------------------------
(***************************************************************************)
(* BackgroundCheckService: the gauge, its append-only chain of decisions,  *)
(* the maker-checker proposals, who holds the review, and check cycles.    *)
(*                                                                         *)
(* The maker-checker switch is on, as it is wherever the application       *)
(* starts outside local and test.  A request's text, a fresh seen_value    *)
(* and a reason are things any caller can supply, so their checks are left *)
(* out.  The inputs are what two decisions can tell apart: which rows were *)
(* recorded (a count, as rows are only added), whether Clear's             *)
(* prerequisites hold of them, and whether the cycle has any.              *)
(***************************************************************************)
EXTENDS CompanyRow

CONSTANTS
    MaxDecisions,   \* bound on the chain
    MaxCycles,      \* bound on check cycles
    MaxInputs       \* bound on recorded inputs and filed documents

ASSUME BoundsAssumption ==
    MaxDecisions \in Nat /\ MaxCycles \in Nat /\ MaxInputs \in Nat

VARIABLES
    head,       \* the chain's head: the decision nothing supersedes yet
    length,     \* how many decisions the chain has
    proposal,   \* the open background_check_proposal, or NoProposal
    cycle,      \* the highest check_cycle.number, 0 before the first row
    inputs      \* what company_inputs and the document list return

checkVars == <<head, length, proposal, cycle, inputs>>

-----------------------------------------------------------------------------
(* The moves.                                                              *)

OperationsMoves == {<<"NOT_STARTED", "IN_REVIEW">>, <<"MORE_INFO", "IN_REVIEW">>}
ClaimingMoves   == {"FLAGGED", "ON_HOLD", "CLEAR"} \X {"IN_REVIEW"}
ApprovalMoves   == {<<"IN_REVIEW", "CLEAR">>, <<"IN_REVIEW", "FLAGGED">>, <<"FLAGGED", "ON_HOLD">>}
ReviewerMoves   == {"IN_REVIEW"} \X {"MORE_INFO", "CLEAR", "FLAGGED"}
Moves           == OperationsMoves \union ClaimingMoves \union ApprovalMoves \union ReviewerMoves

CycleStartStates == {"NOT_STARTED", "IN_REVIEW", "MORE_INFO", "CLEAR"}

\* LOW stands for LOW and MEDIUM, HIGH for HIGH and CRITICAL; only a Clear is rated.
Risks == {"NONE", "LOW", "HIGH"}
RiskFits(to, risk) == risk # "NONE" <=> to = "CLEAR"

MayMove(actor, move) ==
    \/ Compliance(actor)
    \/ Operations(actor) /\ move \in OperationsMoves

\* A reviewer's move is the holder's, or anyone's but the RM's while unassigned.
MayReview(actor) == reviewer = actor \/ (reviewer = NoUser /\ actor # rm)

-----------------------------------------------------------------------------
(* The chain, the inputs and the open proposal.                            *)

\* inputs_fingerprint: the cycle and what its rows and documents say, but for the
\* details beside a verdict, which InputLock has.
Fingerprint == <<cycle, inputs.count>>

Decision == [from : Gauge, to : Gauge, by : Staff, approver : Staff \union {NoUser},
             risk : Risks, cycle : Nat \ {0}, basis : (Nat \ {0}) \X Nat, proposedOn : Nat \X Nat]

Proposal == [by : Staff, from : Gauge, to : Decided, risk : Risks, after : Nat \ {0},
             basis : (Nat \ {0}) \X Nat]

NoProposal == [by |-> NoUser]
NoDecision == [to |-> "NOT_STARTED"]

Inputs == [count : Nat, ready : BOOLEAN, started : BOOLEAN]

\* A company's first input or decision makes cycle 1.
CurrentOrInitial == IF cycle = 0 THEN 1 ELSE cycle

TypeOK ==
    /\ RowTypeOK
    /\ head \in Decision \union {NoDecision}
    /\ length \in Nat
    /\ proposal \in Proposal \union {NoProposal}
    /\ cycle \in Nat
    /\ inputs \in Inputs

CheckInit ==
    /\ head = NoDecision
    /\ length = 0
    /\ proposal = NoProposal
    /\ cycle = 0
    /\ inputs = [count |-> 0, ready |-> FALSE, started |-> FALSE]

-----------------------------------------------------------------------------
(* _apply_move, steps 5 to 7b.                                             *)

\* Mutant: the two values swapped.
DecisionSwapped(to, signed, inCycle) ==
    /\ length < MaxDecisions
    /\ head' = [from |-> to, to |-> gauge, by |-> signed.by, approver |-> signed.approver,
                risk |-> signed.risk, cycle |-> inCycle, basis |-> <<inCycle, inputs.count>>,
                proposedOn |-> signed.basis]
    /\ length' = length + 1

\* The decision and the evidence it pins, superseding the head.
RecordDecision(to, signed, inCycle) ==
    /\ length < MaxDecisions
    /\ head' = [from |-> gauge, to |-> to, by |-> signed.by, approver |-> signed.approver,
                risk |-> signed.risk, cycle |-> inCycle, basis |-> <<inCycle, inputs.count>>,
                proposedOn |-> signed.basis]
    /\ length' = length + 1

\* The gauge and the current Clear's expiry, cleared by every move away.
SetGauge(to) ==
    /\ gauge' = to
    /\ expires' = IF to = "CLEAR" THEN now + Validity ELSE NoExpiry

\* A decided value ends the review; a claiming move takes it.
HandReview(to, by, claims) ==
    reviewer' = IF to \in Decided THEN NoUser ELSE IF claims THEN by ELSE reviewer

ApplyMove(to, signed, claims, inCycle) ==
    /\ RecordDecision(to, signed, inCycle)
    /\ SetGauge(to)
    /\ HandReview(to, signed.by, claims)
    /\ journey' = IF to = "CLEAR" THEN PromoteIfReady(journey, gauge', expires') ELSE journey

\* Mutant: a move is made whatever awaits approval.
NothingEverAwaits == TRUE

\* _refuse_if_awaiting_approval.
NothingAwaits == proposal = NoProposal

\* A move one person makes: nothing but their own name on the decision.
Alone(actor) == [by |-> actor, approver |-> NoUser, risk |-> "NONE", basis |-> <<0, 0>>]

\* _move: a move that needs no approval, while no proposal awaits one.
Move(actor, to) ==
    /\ <<gauge, to>> \in Moves \ ApprovalMoves
    /\ MayMove(actor, <<gauge, to>>)
    /\ NothingAwaits
    /\ <<gauge, to>> \in ReviewerMoves => MayReview(actor)
    /\ ApplyMove(to, Alone(actor),
          \/ <<gauge, to>> \in ReviewerMoves
          \/ <<gauge, to>> \in ClaimingMoves /\ actor # rm,
          CurrentOrInitial)
    /\ cycle' = CurrentOrInitial

StartReview(actor, target) ==
    /\ gauge = "NOT_STARTED"
    /\ Move(actor, "IN_REVIEW")
    /\ EnsureRM(actor, target)
    /\ UNCHANGED <<pipeline, staffVars, now, proposal, inputs>>

RequestMoreInfo(actor) ==
    /\ Move(actor, "MORE_INFO")
    /\ UNCHANGED <<pipeline, rm, staffVars, now, proposal, inputs>>

RecordMoreInfo(actor) ==
    /\ gauge = "MORE_INFO"
    /\ Move(actor, "IN_REVIEW")
    /\ UNCHANGED <<pipeline, rm, staffVars, now, proposal, inputs>>

\* A flagged or held company is looked at again, or a Clear one reopened.
Reassess(actor) ==
    /\ gauge \in Decided
    /\ Move(actor, "IN_REVIEW")
    /\ UNCHANGED <<pipeline, rm, staffVars, now, proposal, inputs>>

-----------------------------------------------------------------------------
(* Maker-checker.                                                          *)

Propose(actor, to, risk) ==
    /\ Compliance(actor)
    /\ <<gauge, to>> \in ApprovalMoves
    /\ RiskFits(to, risk)
    /\ NothingAwaits
    /\ <<gauge, to>> \in ReviewerMoves => MayReview(actor)
    /\ to = "CLEAR" => inputs.ready
    /\ cycle' = CurrentOrInitial
    /\ proposal' = [by |-> actor, from |-> gauge, to |-> to, risk |-> risk,
                    after |-> length, basis |-> Fingerprint]
    /\ reviewer' = IF <<gauge, to>> \in ReviewerMoves THEN actor ELSE reviewer
    /\ UNCHANGED <<pipeline, journey, rm, gauge, expires, staffVars, now, head, length, inputs>>

\* Mutant: the proposer may approve, once no longer the reviewer.
AnyChecker(checker) ==
    /\ proposal # NoProposal
    /\ Compliance(checker)
    /\ checker \notin {reviewer, rm}

\* Another compliance user, neither the review's holder nor the company's RM.
IndependentChecker(checker) ==
    /\ proposal # NoProposal
    /\ Compliance(checker)
    /\ checker \notin {proposal.by, reviewer, rm}

\* Mutant: only the gauge and the head are compared.
NotStaleButInputs == gauge = proposal.from /\ length = proposal.after

NotStale ==
    /\ gauge = proposal.from
    /\ length = proposal.after
    /\ Fingerprint = proposal.basis

Approve(checker) ==
    /\ IndependentChecker(checker)
    /\ proposal.risk = "HIGH" => checker \in SeniorCheckers
    /\ NotStale
    /\ proposal.to = "CLEAR" => inputs.ready
    /\ ApplyMove(proposal.to,
          [by |-> proposal.by, approver |-> checker, risk |-> proposal.risk,
           basis |-> proposal.basis],
          FALSE, CurrentOrInitial)
    /\ cycle' = CurrentOrInitial
    /\ proposal' = NoProposal
    /\ UNCHANGED <<pipeline, rm, staffVars, now, inputs>>

\* A stale proposal can still be rejected.
Reject(checker) ==
    /\ IndependentChecker(checker)
    /\ proposal' = NoProposal
    /\ UNCHANGED <<rowVars, staffVars, now, head, length, cycle, inputs>>

\* The proposer's own, or a lead's once the proposer can no longer review.
Withdraw(actor) ==
    /\ proposal # NoProposal
    /\ Compliance(actor)
    /\ \/ actor = proposal.by
       \/ actor \in ReviewLeads /\ ~Compliance(proposal.by)
    /\ proposal' = NoProposal
    /\ UNCHANGED <<rowVars, staffVars, now, head, length, cycle, inputs>>

-----------------------------------------------------------------------------
(* Who holds the review.                                                   *)

SetReviewer(holder) ==
    /\ reviewer' = holder
    /\ UNCHANGED <<pipeline, journey, rm, gauge, expires, staffVars, now, checkVars>>

ClaimReview(actor) ==
    /\ Compliance(actor)
    /\ gauge \in UnderReview
    /\ reviewer = NoUser
    /\ actor # rm
    /\ SetReviewer(actor)

\* An open proposal survives the change.
AssignReview(actor, target) ==
    /\ active[actor] /\ actor \in ReviewLeads
    /\ gauge \in UnderReview
    /\ target # reviewer
    /\ Compliance(target)
    /\ target # rm
    /\ SetReviewer(target)

ReleaseReview(actor) ==
    /\ active[actor]
    /\ reviewer # NoUser
    /\ actor = reviewer \/ actor \in ReviewLeads
    /\ proposal.by # reviewer
    /\ SetReviewer(NoUser)

-----------------------------------------------------------------------------
(* Check cycles and their inputs.                                          *)

\* Mutant: a Re-KYC leaves the old Clear standing.
KeepsTheClear(actor) == UNCHANGED <<head, length, gauge, expires, reviewer, journey>>

ReopenForCycle(actor) ==
    IF gauge = "CLEAR"
      THEN ApplyMove("IN_REVIEW", Alone(actor), actor # rm, CurrentOrInitial + 1)
      ELSE UNCHANGED <<head, length, gauge, expires, reviewer, journey>>

\* Re-KYC: a new cycle holds no inputs, so nothing recorded before it counts
\* any more; a CLEAR company is reopened in the same transaction.
StartCycle(actor) ==
    /\ cycle < MaxCycles
    /\ Compliance(actor)
    /\ gauge \in CycleStartStates
    /\ NothingAwaits
    /\ inputs.started
    /\ cycle' = CurrentOrInitial + 1
    /\ inputs' = [inputs EXCEPT !.ready = FALSE, !.started = FALSE]
    /\ ReopenForCycle(actor)
    /\ UNCHANGED <<pipeline, rm, staffVars, now, proposal>>

(* A screening answer, a verification result, its provider's verdict or    *)
(* its review, recorded in the current cycle by whoever may.               *)
RecordInput ==
    /\ inputs.count < MaxInputs
    /\ \E ready \in BOOLEAN :
          inputs' = [count |-> inputs.count + 1, ready |-> ready, started |-> TRUE]
    /\ cycle' = CurrentOrInitial
    /\ UNCHANGED <<rowVars, staffVars, now, head, length, proposal>>

(* A company document passes its scan: evidence, but no check.             *)
FileDocument ==
    /\ inputs.count < MaxInputs
    /\ inputs' = [inputs EXCEPT !.count = @ + 1]
    /\ UNCHANGED <<rowVars, staffVars, now, head, length, proposal, cycle>>

-----------------------------------------------------------------------------
CheckNext ==
    \/ \E actor \in Staff, target \in Staff \union {NoUser} : StartReview(actor, target)
    \/ \E actor \in Staff : RequestMoreInfo(actor)
    \/ \E actor \in Staff : RecordMoreInfo(actor)
    \/ \E actor \in Staff : Reassess(actor)
    \/ \E actor \in Staff, to \in Decided, risk \in Risks : Propose(actor, to, risk)
    \/ \E checker \in Staff : Approve(checker)
    \/ \E checker \in Staff : Reject(checker)
    \/ \E actor \in Staff : Withdraw(actor)
    \/ \E actor \in Staff : ClaimReview(actor)
    \/ \E actor, target \in Staff : AssignReview(actor, target)
    \/ \E actor \in Staff : ReleaseReview(actor)
    \/ \E actor \in Staff : StartCycle(actor)
    \/ RecordInput
    \/ FileDocument

vars == <<rowVars, staffVars, now, checkVars>>

\* The check on its own: the row's other writers with it, but no qualification.
Init == RowInit /\ CheckInit
Next == CheckNext \/ (RowNext /\ UNCHANGED checkVars)
Spec == Init /\ [][Next]_vars

-----------------------------------------------------------------------------
Approved == head # NoDecision /\ <<head.from, head.to>> \in ApprovalMoves

GaugeIsHead == gauge = head.to

(* What the database holds the row to, and would refuse a whole operation  *)
(* for: the gauge is where the chain's head took it (a composite foreign   *)
(* key), a reviewer is on it only under review, and it has an expiry only  *)
(* while it is CLEAR.                                                      *)
RowConstraints == GaugeIsHead /\ ReviewerOnlyUnderReview /\ ExpiryIffClear

(* Each decision starts where the one it supersedes ended.                 *)
ChainContinues ==
    [][head' # head =>
          /\ head'.from = head.to
          /\ <<head'.from, head'.to>> \in Moves
          /\ length' = length + 1]_head

(* While a proposal is open nothing else moves the check: the gauge, the   *)
(* head and the cycle are as proposed, whoever took the review over, so    *)
(* only new inputs can make it stale.                                      *)
FrozenWhileAwaiting ==
    proposal # NoProposal =>
        /\ gauge = proposal.from
        /\ length = proposal.after
        /\ cycle = proposal.basis[1]

(* No path lets one person take a company to CLEAR, FLAGGED or ON_HOLD,    *)
(* and a HIGH or CRITICAL Clear has a senior checker's signature.          *)
TwoPeople ==
    Approved =>
        /\ head.approver \notin {NoUser, head.by}
        /\ head.risk = "HIGH" => head.approver \in SeniorCheckers

(* inputs_fingerprint: the checker never approves a decision on inputs the *)
(* maker did not see, however long the proposal stood open.                *)
DecidedAsProposed == Approved => head.basis = head.proposedOn

(* A standing Clear is of the current cycle (a Re-KYC reopens it), and     *)
(* until something is recorded the prerequisites it rested on still hold.  *)
ClearIsOfThisCycle ==
    gauge = "CLEAR" =>
        /\ head.cycle = cycle
        /\ head.basis = Fingerprint => inputs.ready

(* The service is a two-person control over the gauge.                     *)
TwoPersonGauge == INSTANCE MakerChecker WITH
    People     <- Staff,
    Values     <- Gauge,
    Restricted <- ApprovalMoves,
    None       <- NoProposal,
    value      <- gauge,
    pending    <- IF proposal = NoProposal THEN NoProposal
                  ELSE [by |-> proposal.by, to |-> proposal.to],
    signers    <- IF head = NoDecision THEN {} ELSE {head.by, head.approver} \ {NoUser}

(* Every step of the service is a step of MakerChecker, or none of its.    *)
ImplementsMakerChecker == TwoPersonGauge!Spec
=============================================================================
