--------------------------- MODULE Company_proofs ---------------------------
(***************************************************************************)
(* The background check's invariants, for any staff, any bounds and any    *)
(* validity of a Clear; then the check and the qualification together.     *)
(***************************************************************************)
EXTENDS Company, TLAPS

(* What the chain, the open proposal and the inputs say of one another.    *)
(* Without it a proposal's basis could be an empty cycle, a Clear's        *)
(* evidence could outnumber the inputs it was taken from, and an approval  *)
(* could be of a move that needs none.                                     *)
HeadInv ==
    /\ proposal # NoProposal => <<proposal.from, proposal.to>> \in ApprovalMoves
    /\ head = NoDecision <=> gauge = "NOT_STARTED"
    /\ gauge # "NOT_STARTED" => length >= 1 /\ cycle >= 1
    /\ head # NoDecision =>
          /\ head.basis[1] = head.cycle
          /\ head.basis[2] <= inputs.count

CheckInv ==
    /\ TypeOK
    /\ HeadInv
    /\ GaugeIsHead
    /\ FrozenWhileAwaiting
    /\ TwoPeople
    /\ DecidedAsProposed
    /\ ClearIsOfThisCycle
    /\ ReviewerOnlyUnderReview
    /\ ExpiryIffClear

-----------------------------------------------------------------------------
(* The records that stand for nothing are no decision and no proposal.     *)
LEMMA Absent ==
    /\ \A d \in Decision : d # NoDecision
    /\ \A p \in Proposal : p # NoProposal
<1>1. ASSUME NEW d \in Decision PROVE d # NoDecision
  <2>1. "from" \in DOMAIN d BY DEF Decision
  <2>2. "from" \notin DOMAIN NoDecision BY DEF NoDecision
  <2> QED BY <2>1, <2>2
<1>2. ASSUME NEW p \in Proposal PROVE p # NoProposal
  BY <1>2, StaffAssumption DEF Proposal, NoProposal
<1> QED BY <1>1, <1>2

(* _apply_move keeps the chain and the gauge in step, on any move that is  *)
(* one person's alone or carries an independent second signature.          *)
LEMMA ApplyMoveKeeps ==
    ASSUME CheckInv,
           NEW to \in Gauge, NEW signed, NEW claims \in BOOLEAN, NEW inCycle \in Nat \ {0},
           signed.by \in Staff, signed.approver \in Staff \union {NoUser},
           signed.risk \in Risks, signed.basis \in Nat \X Nat,
           <<gauge, to>> \in Moves,
           ApplyMove(to, signed, claims, inCycle), cycle' = inCycle,
           UNCHANGED <<pipeline, staffVars, now>>, rm' \in Staff \union {NoUser},
           proposal' = NoProposal,
           inputs' \in Inputs, inputs'.count = inputs.count,
           to = "CLEAR" => inputs'.ready,
           <<gauge, to>> \in ApprovalMoves =>
              /\ signed.approver \notin {NoUser, signed.by}
              /\ signed.risk = "HIGH" => signed.approver \in SeniorCheckers
              /\ signed.basis = <<inCycle, inputs.count>>
    PROVE  CheckInv'
<1> USE DEF CheckInv
<1>1. /\ head' = [from |-> gauge, to |-> to, by |-> signed.by, approver |-> signed.approver,
                  risk |-> signed.risk, cycle |-> inCycle,
                  basis |-> <<inCycle, inputs.count>>, proposedOn |-> signed.basis]
      /\ length' = length + 1
      /\ gauge' = to
      /\ to # "NOT_STARTED"
  BY DEF ApplyMove, RecordDecision, SetGauge, Moves, OperationsMoves, ClaimingMoves,
         ApprovalMoves, ReviewerMoves
<1>2. head' \in Decision
  BY <1>1 DEF Decision, TypeOK, RowTypeOK, Inputs
<1>3. TypeOK'
  <2>1. expires' \in Nat
    BY ClockAssumption DEF ApplyMove, SetGauge, TypeOK, RowTypeOK, NoExpiry
  <2>2. reviewer' \in Staff \union {NoUser}
    BY DEF ApplyMove, HandReview, TypeOK, RowTypeOK
  <2>3. journey' \in Journeys
    BY DEF ApplyMove, PromoteIfReady, Journeys, TypeOK, RowTypeOK
  <2> QED BY <1>1, <1>2, <2>1, <2>2, <2>3 DEF TypeOK, RowTypeOK, staffVars
<1>4. HeadInv'
  BY <1>1, <1>2, Absent DEF HeadInv, TypeOK, RowTypeOK, Inputs
<1>5. GaugeIsHead' /\ FrozenWhileAwaiting' /\ DecidedAsProposed' /\ TwoPeople'
  BY <1>1 DEF GaugeIsHead, FrozenWhileAwaiting, DecidedAsProposed, TwoPeople, Approved
<1>6. ClearIsOfThisCycle'
  BY <1>1 DEF ClearIsOfThisCycle
<1>7. ReviewerOnlyUnderReview'
  BY <1>1 DEF ApplyMove, HandReview, ReviewerOnlyUnderReview, UnderReview, Decided, Moves,
              OperationsMoves, ClaimingMoves, ApprovalMoves, ReviewerMoves
<1>8. ExpiryIffClear'
  BY <1>1, ClockAssumption DEF ApplyMove, SetGauge, ExpiryIffClear, NoExpiry, TypeOK, RowTypeOK
<1> QED BY <1>3, <1>4, <1>5, <1>6, <1>7, <1>8

-----------------------------------------------------------------------------
(* Each operation keeps the invariant.                                     *)

(* A company starts with no decision, cycle or proposal.                   *)
LEMMA InitKeeps == Init => CheckInv
BY StaffAssumption, Absent
   DEF Init, RowInit, CheckInit, CheckInv, TypeOK, RowTypeOK, HeadInv, GaugeIsHead,
       FrozenWhileAwaiting, TwoPeople, DecidedAsProposed, Approved, ClearIsOfThisCycle,
       ReviewerOnlyUnderReview, ExpiryIffClear, NoDecision, NoProposal, NoExpiry, Inputs,
       Gauge, Journeys, Roles

(* A move one person makes is outside maker-checker.                       *)
LEMMA MoveKeeps ==
    ASSUME CheckInv, NEW actor \in Staff, NEW to \in Gauge \ {"CLEAR"}, Move(actor, to),
           UNCHANGED <<pipeline, staffVars, now, proposal, inputs>>,
           rm' \in Staff \union {NoUser}
    PROVE  CheckInv'
<1> DEFINE claims == \/ <<gauge, to>> \in ReviewerMoves
                     \/ <<gauge, to>> \in ClaimingMoves /\ actor # rm
<1>1. CurrentOrInitial \in Nat \ {0} /\ cycle' = CurrentOrInitial
  BY DEF CurrentOrInitial, CheckInv, TypeOK, Move
<1>2. /\ Alone(actor).by \in Staff
      /\ Alone(actor).approver \in Staff \union {NoUser}
      /\ Alone(actor).risk \in Risks
      /\ Alone(actor).basis \in Nat \X Nat
  BY DEF Alone, Risks
<1>3. /\ <<gauge, to>> \in Moves \ ApprovalMoves
      /\ proposal' = NoProposal
      /\ ApplyMove(to, Alone(actor), claims, CurrentOrInitial)
  BY DEF Move, NothingAwaits
<1>4. inputs' \in Inputs /\ inputs'.count = inputs.count
  BY DEF CheckInv, TypeOK
<1> HIDE DEF claims
<1>5. claims \in BOOLEAN
  BY DEF claims
<1> QED BY <1>1, <1>2, <1>3, <1>4, <1>5, ApplyMoveKeeps

(* Rejecting or withdrawing a proposal leaves everything else alone.       *)
LEMMA DropKeeps ==
    ASSUME CheckInv, proposal' = NoProposal,
           UNCHANGED <<rowVars, staffVars, now, head, length, cycle, inputs>>
    PROVE  CheckInv'
BY DEF CheckInv, rowVars, staffVars, TypeOK, RowTypeOK, HeadInv, GaugeIsHead,
       FrozenWhileAwaiting, TwoPeople, DecidedAsProposed, Approved, ClearIsOfThisCycle,
       Fingerprint, ReviewerOnlyUnderReview, ExpiryIffClear

(* A recorded input outnumbers the evidence any decision pinned, so no     *)
(* Clear's basis is the fingerprint any more.                              *)
LEMMA InputKeeps == ASSUME CheckInv, RecordInput \/ FileDocument PROVE CheckInv'
<1> USE DEF CheckInv
<1>1. /\ inputs' \in Inputs
      /\ inputs'.count = inputs.count + 1
      /\ UNCHANGED <<rowVars, staffVars, now, head, length, proposal>>
  <2>1. inputs \in [count : Nat, ready : BOOLEAN, started : BOOLEAN]
    BY DEF Inputs, TypeOK
  <2>2. CASE RecordInput
    BY <2>1, <2>2 DEF RecordInput, Inputs
  <2>3. CASE FileDocument
    BY <2>1, <2>3 DEF FileDocument, Inputs
  <2> QED BY <2>2, <2>3
<1>2. cycle' \in Nat /\ (cycle >= 1 => cycle' = cycle)
  BY DEF RecordInput, FileDocument, CurrentOrInitial, TypeOK
<1>3. TypeOK'
  BY <1>1, <1>2 DEF TypeOK, RowTypeOK, rowVars, staffVars
<1>4. HeadInv'
  BY <1>1, <1>2, Absent DEF HeadInv, TypeOK, RowTypeOK, Decision, Inputs, rowVars
<1>5. FrozenWhileAwaiting'
  BY <1>1, <1>2 DEF FrozenWhileAwaiting, TypeOK, Proposal, rowVars
<1>6. ClearIsOfThisCycle'
  <2> SUFFICES ASSUME gauge = "CLEAR"
               PROVE  head'.cycle = cycle' /\ head'.basis # Fingerprint'
    BY <1>1 DEF ClearIsOfThisCycle, rowVars
  <2>1. head \in Decision /\ cycle >= 1 /\ head.cycle = cycle
    BY DEF HeadInv, ClearIsOfThisCycle, TypeOK
  <2>2. head.basis[2] < inputs'.count
    BY <1>1, <2>1, Absent DEF HeadInv, TypeOK, Decision, Inputs
  <2> QED BY <1>1, <1>2, <2>1, <2>2 DEF Fingerprint, Decision
<1> QED BY <1>1, <1>3, <1>4, <1>5, <1>6
        DEF GaugeIsHead, TwoPeople, DecidedAsProposed, Approved, ReviewerOnlyUnderReview,
            ExpiryIffClear, rowVars

(* A Re-KYC reopens a Clear as one person's move, in the new cycle.        *)
LEMMA StartCycleKeeps == ASSUME CheckInv, NEW actor \in Staff, StartCycle(actor) PROVE CheckInv'
<1> USE DEF CheckInv
<1> DEFINE next == CurrentOrInitial + 1
<1>1. /\ next \in Nat \ {0} /\ cycle' = next
      /\ inputs' \in Inputs /\ inputs'.count = inputs.count
      /\ proposal = NoProposal /\ proposal' = NoProposal
      /\ rm' \in Staff \union {NoUser}
      /\ UNCHANGED <<pipeline, staffVars, now>>
  <2>1. inputs \in [count : Nat, ready : BOOLEAN, started : BOOLEAN]
    BY DEF Inputs, TypeOK
  <2>2. inputs' \in Inputs /\ inputs'.count = inputs.count
    BY <2>1 DEF StartCycle, Inputs
  <2> QED BY <2>2 DEF StartCycle, CurrentOrInitial, NothingAwaits, TypeOK, RowTypeOK
<1>2. CASE gauge = "CLEAR"
  <2>1. /\ Alone(actor).by \in Staff
        /\ Alone(actor).approver \in Staff \union {NoUser}
        /\ Alone(actor).risk \in Risks
        /\ Alone(actor).basis \in Nat \X Nat
    BY DEF Alone, Risks
  <2>2. /\ <<gauge, "IN_REVIEW">> \in Moves \ ApprovalMoves
        /\ "IN_REVIEW" \in Gauge
    BY <1>2 DEF Moves, ClaimingMoves, ApprovalMoves, Gauge
  <2>3. ApplyMove("IN_REVIEW", Alone(actor), actor # rm, next)
    BY <1>2 DEF StartCycle, ReopenForCycle
  <2> HIDE DEF next
  <2> QED BY <1>1, <2>1, <2>2, <2>3, ApplyMoveKeeps
<1>3. CASE gauge # "CLEAR"
  <2>1. UNCHANGED <<rowVars, head, length>>
    BY <1>3 DEF StartCycle, ReopenForCycle, rowVars
  <2>2. TypeOK'
    BY <1>1, <2>1 DEF TypeOK, RowTypeOK, rowVars, staffVars
  <2>3. next >= 1
    BY <1>1
  <2> QED BY <1>1, <1>3, <2>1, <2>2, <2>3
          DEF HeadInv, GaugeIsHead, FrozenWhileAwaiting, TwoPeople, DecidedAsProposed,
              Approved, ClearIsOfThisCycle, ReviewerOnlyUnderReview, ExpiryIffClear, rowVars
<1> QED BY <1>2, <1>3

(* Every request of the background check keeps the invariant.              *)
LEMMA StepKeeps == ASSUME CheckInv, CheckNext PROVE CheckInv'
<1> USE DEF CheckInv
<1>1. ASSUME NEW actor \in Staff, NEW target \in Staff \union {NoUser},
             StartReview(actor, target)
      PROVE  CheckInv'
  <2>1. rm' \in Staff \union {NoUser}
    BY <1>1 DEF StartReview, EnsureRM, SetRM, TypeOK, RowTypeOK
  <2> QED BY <1>1, <2>1, MoveKeeps DEF StartReview, Gauge
<1>2. ASSUME NEW actor \in Staff, RequestMoreInfo(actor) PROVE CheckInv'
  BY <1>2, MoveKeeps DEF RequestMoreInfo, TypeOK, RowTypeOK, Gauge
<1>3. ASSUME NEW actor \in Staff, RecordMoreInfo(actor) PROVE CheckInv'
  BY <1>3, MoveKeeps DEF RecordMoreInfo, TypeOK, RowTypeOK, Gauge
<1>4. ASSUME NEW actor \in Staff, Reassess(actor) PROVE CheckInv'
  BY <1>4, MoveKeeps DEF Reassess, TypeOK, RowTypeOK, Gauge
<1>5. ASSUME NEW actor \in Staff, NEW to \in Decided, NEW risk \in Risks,
             Propose(actor, to, risk)
      PROVE  CheckInv'
  <2>1. gauge \in {"IN_REVIEW", "FLAGGED"} /\ length >= 1 /\ cycle >= 1 /\ cycle' = cycle
    BY <1>5 DEF Propose, ApprovalMoves, HeadInv, CurrentOrInitial, TypeOK
  <2>2. proposal' \in Proposal
    BY <1>5, <2>1 DEF Propose, Proposal, Fingerprint, TypeOK, RowTypeOK, Inputs
  <2>3. TypeOK'
    BY <1>5, <2>1, <2>2 DEF Propose, TypeOK, RowTypeOK, staffVars
  <2>4. FrozenWhileAwaiting'
    BY <1>5, <2>1 DEF Propose, FrozenWhileAwaiting, Fingerprint
  <2>5. ReviewerOnlyUnderReview'
    BY <1>5 DEF Propose, ReviewerOnlyUnderReview, ReviewerMoves, UnderReview
  <2>6. ClearIsOfThisCycle'
    BY <1>5, <2>1 DEF Propose, ClearIsOfThisCycle
  <2> QED BY <1>5, <2>1, <2>3, <2>4, <2>5, <2>6
          DEF Propose, HeadInv, GaugeIsHead, TwoPeople, DecidedAsProposed, Approved,
              ExpiryIffClear
<1>6. ASSUME NEW checker \in Staff, Approve(checker) PROVE CheckInv'
  <2> DEFINE signed == [by |-> proposal.by, approver |-> checker, risk |-> proposal.risk,
                        basis |-> proposal.basis]
  <2>1. proposal \in Proposal
    BY <1>6 DEF Approve, IndependentChecker, TypeOK
  <2>2. cycle = proposal.basis[1] /\ cycle >= 1 /\ CurrentOrInitial = cycle /\ cycle' = cycle
    BY <1>6, <2>1 DEF Approve, IndependentChecker, FrozenWhileAwaiting, Proposal,
                      CurrentOrInitial, TypeOK
  <2>3. <<gauge, proposal.to>> \in ApprovalMoves /\ <<gauge, proposal.to>> \in Moves
    BY <1>6 DEF HeadInv, Approve, IndependentChecker, NotStale, Moves
  <2>4. /\ signed.by \in Staff
        /\ signed.approver \in Staff \union {NoUser}
        /\ signed.risk \in Risks
        /\ signed.basis \in Nat \X Nat
        /\ signed.basis = <<CurrentOrInitial, inputs.count>>
    BY <1>6, <2>1, <2>2 DEF Proposal, Approve, NotStale, Fingerprint
  <2>5. /\ signed.approver \notin {NoUser, signed.by}
        /\ signed.risk = "HIGH" => signed.approver \in SeniorCheckers
    BY <1>6, StaffAssumption DEF Approve, IndependentChecker
  <2>6. ApplyMove(proposal.to, signed, FALSE, CurrentOrInitial)
    BY <1>6 DEF Approve
  <2>7. /\ proposal' = NoProposal
        /\ inputs' \in Inputs /\ inputs'.count = inputs.count
        /\ proposal.to = "CLEAR" => inputs'.ready
        /\ rm' \in Staff \union {NoUser}
        /\ UNCHANGED <<pipeline, staffVars, now>>
    BY <1>6 DEF Approve, TypeOK, RowTypeOK
  <2>8. proposal.to \in Gauge /\ CurrentOrInitial \in Nat \ {0}
    BY <2>1, <2>2 DEF Proposal, Decided, Gauge, TypeOK
  <2> HIDE DEF signed
  <2> QED BY <2>2, <2>3, <2>4, <2>5, <2>6, <2>7, <2>8, ApplyMoveKeeps
<1>7. ASSUME NEW actor \in Staff, Reject(actor) \/ Withdraw(actor) PROVE CheckInv'
  BY <1>7, DropKeeps DEF Reject, Withdraw, IndependentChecker
<1>8. ASSUME NEW holder \in Staff \union {NoUser},
             holder = NoUser \/ gauge \in UnderReview,
             SetReviewer(holder)
      PROVE  CheckInv'
  BY <1>8 DEF SetReviewer, checkVars, staffVars, TypeOK, RowTypeOK, HeadInv, GaugeIsHead,
              FrozenWhileAwaiting, TwoPeople, DecidedAsProposed, Approved,
              ClearIsOfThisCycle, Fingerprint, ReviewerOnlyUnderReview, ExpiryIffClear
<1>9. ASSUME NEW actor \in Staff, NEW target \in Staff,
             ClaimReview(actor) \/ AssignReview(actor, target) \/ ReleaseReview(actor)
      PROVE  CheckInv'
  BY <1>8, <1>9 DEF ClaimReview, AssignReview, ReleaseReview
<1>10. ASSUME NEW actor \in Staff, StartCycle(actor) PROVE CheckInv'
  BY <1>10, StartCycleKeeps
<1>11. RecordInput \/ FileDocument => CheckInv'
  BY InputKeeps
<1> QED BY <1>1, <1>2, <1>3, <1>4, <1>5, <1>6, <1>7, <1>9, <1>10, <1>11 DEF CheckNext

(* The row's other writers never touch the check.                          *)
LEMMA RowStepKeeps ==
    ASSUME CheckInv, UNCHANGED <<gauge, expires, reviewer, checkVars>>, RowTypeOK'
    PROVE  CheckInv'
BY DEF CheckInv, checkVars, TypeOK, HeadInv, GaugeIsHead, FrozenWhileAwaiting, TwoPeople,
       DecidedAsProposed, Approved, ClearIsOfThisCycle, Fingerprint,
       ReviewerOnlyUnderReview, ExpiryIffClear

(* So does every write of the row by another service.                      *)
LEMMA RowNextKeeps == ASSUME CheckInv, RowNext, UNCHANGED checkVars PROVE CheckInv'
<1>1. RowTypeOK'
  BY DEF RowNext, AssignRM, BringIntoPipeline, UpdateUser, Tick, SetRM, rowVars, staffVars,
         CheckInv, TypeOK, RowTypeOK
<1>2. UNCHANGED <<gauge, expires, reviewer>>
  BY DEF RowNext, AssignRM, BringIntoPipeline, UpdateUser, Tick, rowVars
<1> QED BY <1>1, <1>2, RowStepKeeps

-----------------------------------------------------------------------------
(* CheckInv holds in every state of the service.                           *)
THEOREM CheckInvariant == Spec => []CheckInv
<1>1. Init => CheckInv
  BY InitKeeps
<1>2. CheckInv /\ [Next]_vars => CheckInv'
  <2> SUFFICES ASSUME CheckInv, [Next]_vars PROVE CheckInv'
    OBVIOUS
  <2>1. CASE CheckNext
    BY <2>1, StepKeeps
  <2>2. CASE RowNext /\ UNCHANGED checkVars
    BY <2>2, RowNextKeeps
  <2>3. CASE UNCHANGED vars
    <3>1. RowTypeOK'
      BY <2>3 DEF vars, rowVars, staffVars, CheckInv, TypeOK, RowTypeOK
    <3> QED BY <2>3, <3>1, RowStepKeeps DEF vars, rowVars
  <2> QED BY <2>1, <2>2, <2>3 DEF Next
<1> QED BY <1>1, <1>2, PTL DEF Spec

(* No path lets one person take a company to CLEAR, FLAGGED or ON_HOLD,    *)
(* and no HIGH or CRITICAL Clear is without a senior checker's signature.  *)
THEOREM TwoPeopleHolds == Spec => []TwoPeople
BY CheckInvariant, PTL DEF CheckInv

(* The checker never approves a decision on inputs the maker did not see.  *)
THEOREM DecidedAsProposedHolds == Spec => []DecidedAsProposed
BY CheckInvariant, PTL DEF CheckInv

(* Nothing moves the check while a proposal is open.                       *)
THEOREM FrozenWhileAwaitingHolds == Spec => []FrozenWhileAwaiting
BY CheckInvariant, PTL DEF CheckInv

(* A standing Clear is of the current cycle, on prerequisites that hold    *)
(* until something is recorded.                                            *)
THEOREM ClearIsOfThisCycleHolds == Spec => []ClearIsOfThisCycle
BY CheckInvariant, PTL DEF CheckInv

(* The row, the chain and the proposal keep their types.                   *)
THEOREM CheckTypes == Spec => []TypeOK
BY CheckInvariant, PTL DEF CheckInv

(* The gauge is the chain's head, only a check under review has a reviewer *)
(* and only a CLEAR has an expiry: the database never refuses a move.      *)
THEOREM RowConstraintsHold == Spec => []RowConstraints
BY CheckInvariant, PTL DEF CheckInv, RowConstraints

-----------------------------------------------------------------------------
(* A step of the check moves the gauge only by appending to the chain, and *)
(* shows MakerChecker one of its own steps.                                *)

\* The refinement mapping's view of the open proposal and of the head.
Pending == IF proposal = NoProposal THEN NoProposal ELSE [by |-> proposal.by, to |-> proposal.to]
Signers == IF head = NoDecision THEN {} ELSE {head.by, head.approver} \ {NoUser}

(* What _apply_move records: the decision, as proposed and as it stands.   *)
LEMMA AppliedMove ==
    ASSUME CheckInv, NEW to \in Gauge, NEW signed, NEW claims, NEW inCycle,
           <<gauge, to>> \in Moves,
           ApplyMove(to, signed, claims, inCycle)
    PROVE  /\ gauge' = to
           /\ head'.from = head.to /\ <<head'.from, head'.to>> \in Moves
           /\ length' = length + 1
           /\ Signers' = {signed.by, signed.approver} \ {NoUser}
<1>1. /\ head' = [from |-> gauge, to |-> to, by |-> signed.by, approver |-> signed.approver,
                  risk |-> signed.risk, cycle |-> inCycle,
                  basis |-> <<inCycle, inputs.count>>, proposedOn |-> signed.basis]
      /\ length' = length + 1
      /\ gauge' = to
  BY DEF ApplyMove, RecordDecision, SetGauge
<1>2. head' # NoDecision
  <2>1. "from" \in DOMAIN head' /\ "from" \notin DOMAIN NoDecision
    BY <1>1 DEF NoDecision
  <2> QED BY <2>1
<1>3. gauge = head.to
  BY DEF CheckInv, GaugeIsHead
<1> QED BY <1>1, <1>2, <1>3 DEF Signers

(* A move one person makes is not an approval, and decides nothing.        *)
LEMMA MoveAlone ==
    ASSUME CheckInv, NEW actor \in Staff, NEW to \in Gauge, NEW claims, NEW inCycle,
           <<gauge, to>> \in Moves \ ApprovalMoves,
           ApplyMove(to, Alone(actor), claims, inCycle),
           proposal = NoProposal, UNCHANGED proposal
    PROVE  TwoPersonGauge!Next
<1>1. gauge' = to /\ Signers' = {actor}
  <2>1. Alone(actor).by = actor /\ Alone(actor).approver = NoUser
    BY DEF Alone
  <2>2. gauge' = to /\ Signers' = {Alone(actor).by, Alone(actor).approver} \ {NoUser}
    BY AppliedMove
  <2> QED BY <2>1, <2>2, StaffAssumption
<1>2. TwoPersonGauge!MoveAlone(actor, to)
  BY <1>1 DEF TwoPersonGauge!MoveAlone, Signers
<1> QED BY <1>2 DEF TwoPersonGauge!Next

(* Each request is a step of MakerChecker, or none.                        *)
LEMMA StepImplements ==
    ASSUME CheckInv, CheckNext PROVE [TwoPersonGauge!Next]_(TwoPersonGauge!vars)
<1> USE DEF CheckInv
<1>1. ASSUME NEW actor \in Staff, NEW to \in Gauge, Move(actor, to), UNCHANGED proposal
      PROVE  TwoPersonGauge!Next
  BY <1>1, MoveAlone DEF Move, NothingAwaits
<1>2. ASSUME NEW actor \in Staff, NEW to \in Decided, NEW risk \in Risks,
             Propose(actor, to, risk)
      PROVE  TwoPersonGauge!Next
  <2>1. actor # NoUser /\ proposal' # NoProposal
    BY <1>2, StaffAssumption DEF Propose, NoProposal
  <2>2. TwoPersonGauge!Propose(actor, to)
    BY <1>2, <2>1 DEF Propose, NothingAwaits, TwoPersonGauge!Propose
  <2> QED BY <2>2 DEF TwoPersonGauge!Next, Decided, Gauge
<1>3. ASSUME NEW checker \in Staff, Approve(checker) PROVE TwoPersonGauge!Next
  <2> DEFINE signed == [by |-> proposal.by, approver |-> checker, risk |-> proposal.risk,
                        basis |-> proposal.basis]
  <2>1. proposal \in Proposal /\ proposal # NoProposal /\ proposal' = NoProposal
    BY <1>3 DEF Approve, IndependentChecker, TypeOK
  <2>2. <<gauge, proposal.to>> \in Moves /\ proposal.to \in Gauge
    BY <1>3, <2>1 DEF HeadInv, Approve, NotStale, Moves, Proposal, Decided, Gauge
  <2>3. gauge' = proposal.to /\ Signers' = {signed.by, signed.approver} \ {NoUser}
    <3> HIDE DEF signed
    <3>1. ApplyMove(proposal.to, signed, FALSE, CurrentOrInitial)
      BY <1>3 DEF Approve, signed
    <3> QED BY <2>2, <3>1, AppliedMove
  <2>4. Signers' = {proposal.by, checker} /\ checker # proposal.by
    BY <1>3, <2>1, <2>3, StaffAssumption DEF Proposal, Approve, IndependentChecker
  <2>5. TwoPersonGauge!Approve(checker)
    BY <2>1, <2>3, <2>4 DEF TwoPersonGauge!Approve, Signers, NoProposal
  <2> QED BY <2>5 DEF TwoPersonGauge!Next
<1>4. ASSUME NEW checker \in Staff, Reject(checker) \/ Withdraw(checker)
      PROVE  TwoPersonGauge!Next
  <2>1. proposal \in Proposal /\ proposal # NoProposal /\ proposal' = NoProposal
        /\ UNCHANGED <<gauge, head>>
    BY <1>4 DEF Reject, Withdraw, IndependentChecker, rowVars, TypeOK
  <2>2. proposal.by # NoUser
    BY <2>1, StaffAssumption DEF Proposal
  <2>3. TwoPersonGauge!Drop
    BY <2>1, <2>2 DEF TwoPersonGauge!Drop, NoProposal
  <2> QED BY <2>3 DEF TwoPersonGauge!Next
<1>5. ASSUME UNCHANGED <<gauge, head, proposal>> PROVE UNCHANGED TwoPersonGauge!vars
  BY <1>5 DEF TwoPersonGauge!vars
<1>6. ASSUME NEW actor \in Staff, StartCycle(actor) PROVE [TwoPersonGauge!Next]_(TwoPersonGauge!vars)
  <2>1. CASE gauge = "CLEAR"
    <3>1. <<gauge, "IN_REVIEW">> \in Moves \ ApprovalMoves /\ "IN_REVIEW" \in Gauge
      BY <2>1 DEF Moves, ClaimingMoves, ApprovalMoves, Gauge
    <3>2. /\ ApplyMove("IN_REVIEW", Alone(actor), actor # rm, CurrentOrInitial + 1)
          /\ proposal = NoProposal /\ UNCHANGED proposal
      BY <1>6, <2>1 DEF StartCycle, ReopenForCycle, NothingAwaits
    <3> QED BY <3>1, <3>2, MoveAlone
  <2>2. CASE gauge # "CLEAR"
    BY <1>5, <1>6, <2>2 DEF StartCycle, ReopenForCycle
  <2> QED BY <2>1, <2>2
<1>7. ASSUME NEW actor \in Staff, NEW target \in Staff \union {NoUser},
             StartReview(actor, target)
      PROVE  TwoPersonGauge!Next
  BY <1>1, <1>7 DEF StartReview, Gauge
<1>8. ASSUME NEW actor \in Staff,
             RequestMoreInfo(actor) \/ RecordMoreInfo(actor) \/ Reassess(actor)
      PROVE  TwoPersonGauge!Next
  BY <1>1, <1>8 DEF RequestMoreInfo, RecordMoreInfo, Reassess, Gauge
<1>9. ASSUME NEW actor \in Staff, NEW target \in Staff,
             ClaimReview(actor) \/ AssignReview(actor, target) \/ ReleaseReview(actor)
      PROVE  UNCHANGED TwoPersonGauge!vars
  BY <1>5, <1>9 DEF ClaimReview, AssignReview, ReleaseReview, SetReviewer, checkVars
<1>10. RecordInput \/ FileDocument => UNCHANGED TwoPersonGauge!vars
  BY <1>5 DEF RecordInput, FileDocument, rowVars
<1> QED BY <1>2, <1>3, <1>4, <1>6, <1>7, <1>8, <1>9, <1>10 DEF CheckNext

(* Every append continues the chain and is a move of the table.            *)
LEMMA StepAppends ==
    ASSUME CheckInv, CheckNext, head' # head
    PROVE  /\ head'.from = head.to
           /\ <<head'.from, head'.to>> \in Moves
           /\ length' = length + 1
<1> DEFINE Appended == /\ head'.from = head.to
                       /\ <<head'.from, head'.to>> \in Moves
                       /\ length' = length + 1
<1> USE DEF CheckInv
<1>1. ASSUME NEW actor \in Staff, NEW to \in Gauge, Move(actor, to) PROVE Appended
  BY <1>1, AppliedMove DEF Move
<1>2. ASSUME NEW checker \in Staff, Approve(checker) PROVE Appended
  <2>1. proposal \in Proposal /\ proposal # NoProposal
    BY <1>2 DEF Approve, IndependentChecker, TypeOK
  <2>2. <<gauge, proposal.to>> \in Moves /\ proposal.to \in Gauge
    BY <1>2, <2>1 DEF HeadInv, Approve, NotStale, Moves, Proposal, Decided, Gauge
  <2> QED BY <1>2, <2>2, AppliedMove DEF Approve
<1>3. ASSUME NEW actor \in Staff, StartCycle(actor) PROVE Appended
  <2>1. gauge = "CLEAR" /\ ApplyMove("IN_REVIEW", Alone(actor), actor # rm, CurrentOrInitial + 1)
    BY <1>3 DEF StartCycle, ReopenForCycle
  <2>2. <<gauge, "IN_REVIEW">> \in Moves /\ "IN_REVIEW" \in Gauge
    BY <2>1 DEF Moves, ClaimingMoves, Gauge
  <2> QED BY <2>1, <2>2, AppliedMove
<1>4. ASSUME NEW actor \in Staff, NEW target \in Staff \union {NoUser},
             \/ StartReview(actor, target) \/ RequestMoreInfo(actor)
             \/ RecordMoreInfo(actor) \/ Reassess(actor)
      PROVE  Appended
  BY <1>1, <1>4 DEF StartReview, RequestMoreInfo, RecordMoreInfo, Reassess, Gauge
<1> HIDE DEF Appended
<1>5. Appended
  BY <1>2, <1>3, <1>4
     DEF CheckNext, Propose, Reject, Withdraw, ClaimReview, AssignReview, ReleaseReview,
         SetReviewer, checkVars, RecordInput, FileDocument
<1> QED BY <1>5 DEF Appended

(* The decisions form one unbroken chain.                                  *)
THEOREM ChainContinuesHolds == Spec => ChainContinues
<1>1. ASSUME CheckInv, [Next]_vars, head' # head
      PROVE  /\ head'.from = head.to
             /\ <<head'.from, head'.to>> \in Moves
             /\ length' = length + 1
  <2>1. CheckNext
    BY <1>1 DEF Next, vars, checkVars
  <2> QED BY <1>1, <2>1, StepAppends
<1> QED BY <1>1, CheckInvariant, PTL DEF Spec, ChainContinues

(* The detailed service implements the two-person control: each person's   *)
(* move is MoveAlone, an approval is Approve, and the rest is invisible.   *)
THEOREM CheckImplementsMakerChecker == Spec => ImplementsMakerChecker
<1>1. Init => TwoPersonGauge!Init
  BY DEF Init, RowInit, CheckInit, TwoPersonGauge!Init, Gauge
<1>2. CheckInv /\ [Next]_vars => [TwoPersonGauge!Next]_(TwoPersonGauge!vars)
  <2> SUFFICES ASSUME CheckInv, [Next]_vars
               PROVE  [TwoPersonGauge!Next]_(TwoPersonGauge!vars)
    OBVIOUS
  <2>1. CASE CheckNext
    BY <2>1, StepImplements
  <2>2. CASE (RowNext /\ UNCHANGED checkVars) \/ UNCHANGED vars
    <3>1. UNCHANGED <<gauge, head, proposal>>
      BY <2>2 DEF RowNext, AssignRM, BringIntoPipeline, UpdateUser, Tick, rowVars,
                  checkVars, vars
    <3> QED BY <3>1 DEF TwoPersonGauge!vars
  <2> QED BY <2>1, <2>2 DEF Next
<1> QED BY <1>1, <1>2, CheckInvariant, PTL DEF Spec, ImplementsMakerChecker, TwoPersonGauge!Spec

-----------------------------------------------------------------------------
(* The composition.                                                        *)

CompanyInv ==
    /\ CheckInv
    /\ CompanyTypeOK
    /\ QualifiedIffPastLead
    /\ NoPromotionMissed

-----------------------------------------------------------------------------
(* What an approval or a qualification does to the journey.                *)
LEMMA PromotionIsSafe ==
    ASSUME NEW stage \in Journeys, NEW value, NEW expiry
    PROVE  LET next == PromoteIfReady(stage, value, expiry)
           IN  /\ next \in Journeys
               /\ ~(next = "PROSPECT" /\ IsClearCurrent(value, expiry))
               /\ next = "LEAD" <=> stage = "LEAD"
               /\ next # stage => /\ stage = "PROSPECT" /\ next = "CUSTOMER"
                                  /\ IsClearCurrent(value, expiry)
BY DEF PromoteIfReady, Journeys

(* The check's own steps keep the rest of the company in order.            *)
LEMMA ApplyMovePromotes ==
    ASSUME CompanyInv, NEW to, NEW signed, NEW claims, NEW inCycle,
           ApplyMove(to, signed, claims, inCycle),
           UNCHANGED <<now, pipeline, qualification>>
    PROVE  /\ QualifiedIffPastLead' /\ NoPromotionMissed'
           /\ journey' # journey => JourneyStep
<1>1. gauge' = to /\ (to # "CLEAR" => journey' = journey)
  BY DEF ApplyMove, SetGauge
<1>2. to = "CLEAR" => journey' = PromoteIfReady(journey, gauge', expires')
  BY DEF ApplyMove
<1>3. journey \in Journeys
  BY DEF CompanyInv, CheckInv, TypeOK, RowTypeOK
<1>4. CASE to = "CLEAR"
  BY <1>1, <1>2, <1>3, <1>4, PromotionIsSafe
     DEF CompanyInv, QualifiedIffPastLead, NoPromotionMissed, IsClearCurrent, JourneyStep
<1>5. CASE to # "CLEAR"
  BY <1>1, <1>5
     DEF CompanyInv, QualifiedIffPastLead, NoPromotionMissed, IsClearCurrent
<1> QED BY <1>4, <1>5

(* A check request that clears the company promotes it if it is ready.     *)
LEMMA CheckStepPromotes ==
    ASSUME CompanyInv, CheckNext, UNCHANGED qualification
    PROVE  /\ QualifiedIffPastLead' /\ NoPromotionMissed'
           /\ journey' # journey => JourneyStep
<1> DEFINE Kept == /\ QualifiedIffPastLead' /\ NoPromotionMissed'
                   /\ journey' # journey => JourneyStep
<1>1. UNCHANGED <<now, pipeline>>
  BY DEF CheckNext, StartReview, RequestMoreInfo, RecordMoreInfo, Reassess, Propose, Approve,
         Reject, Withdraw, ClaimReview, AssignReview, ReleaseReview, SetReviewer, StartCycle,
         RecordInput, FileDocument, rowVars
<1>2. ASSUME NEW to, NEW signed, NEW claims, NEW inCycle, ApplyMove(to, signed, claims, inCycle)
      PROVE  Kept
  BY <1>1, <1>2, ApplyMovePromotes
<1>3. ASSUME UNCHANGED <<gauge, expires, journey>> PROVE Kept
  BY <1>1, <1>3
     DEF CompanyInv, QualifiedIffPastLead, NoPromotionMissed, IsClearCurrent
<1> HIDE DEF Kept
<1>4. ASSUME NEW actor \in Staff, NEW to, Move(actor, to) PROVE Kept
  BY <1>2, <1>4 DEF Move
<1>5. ASSUME NEW actor \in Staff, NEW target \in Staff \union {NoUser},
             \/ StartReview(actor, target) \/ RequestMoreInfo(actor)
             \/ RecordMoreInfo(actor) \/ Reassess(actor)
      PROVE  Kept
  BY <1>4, <1>5 DEF StartReview, RequestMoreInfo, RecordMoreInfo, Reassess
<1>6. ASSUME NEW checker \in Staff, Approve(checker) PROVE Kept
  BY <1>2, <1>6 DEF Approve
<1>7. ASSUME NEW actor \in Staff, StartCycle(actor) PROVE Kept
  BY <1>2, <1>3, <1>7 DEF StartCycle, ReopenForCycle
<1>8. ASSUME NEW actor \in Staff, NEW target \in Staff, NEW to \in Decided, NEW risk \in Risks,
             \/ Propose(actor, to, risk) \/ Reject(actor) \/ Withdraw(actor)
             \/ ClaimReview(actor) \/ AssignReview(actor, target) \/ ReleaseReview(actor)
             \/ RecordInput \/ FileDocument
      PROVE  Kept
  BY <1>3, <1>8 DEF Propose, Reject, Withdraw, ClaimReview, AssignReview, ReleaseReview,
                    SetReviewer, RecordInput, FileDocument, rowVars
<1>9. Kept
  <2>1. \A actor \in Staff, risk \in Risks : Reject(actor) => Kept
    BY <1>8 DEF Decided
  <2>2. \A actor \in Staff : Withdraw(actor) \/ ClaimReview(actor) \/ ReleaseReview(actor) => Kept
    BY <1>8 DEF Decided, Risks
  <2> QED BY <1>3, <1>5, <1>6, <1>7, <1>8, <2>1, <2>2
          DEF CheckNext, Decided, Risks, RecordInput, FileDocument, rowVars
<1> QED BY <1>9 DEF Kept

(* The qualification's steps keep the check in order: they write the       *)
(* journey and the relationship manager, which the check never reads back. *)
LEMMA QualificationStepKeeps ==
    ASSUME CompanyInv, QualificationNext, UNCHANGED checkVars
    PROVE  /\ CompanyInv'
           /\ journey' # journey => JourneyStep
<1>1. PICK outcome \in Outcomes : OpenToReview /\ WriteOutcome(outcome)
  BY DEF QualificationNext, RecordOutcome, RecordPartnerDecision, Outcomes, QualificationState
<1>2. UNCHANGED <<pipeline, gauge, expires, reviewer, staffVars, now>>
  BY DEF QualificationNext, RecordOutcome, RecordPartnerDecision
<1>3. rm' \in Staff \union {NoUser}
  BY DEF QualificationNext, RecordOutcome, RecordPartnerDecision, EnsureRM, SetRM,
         CompanyInv, CheckInv, TypeOK, RowTypeOK
<1>4. journey \in Journeys /\ journey = "LEAD" /\ qualification # "QUALIFIED"
  BY <1>1 DEF OpenToReview, CompanyInv, CheckInv, TypeOK, RowTypeOK, QualifiedIffPastLead
<1>5. /\ journey' \in Journeys
      /\ journey' # "LEAD" <=> outcome = "QUALIFIED"
      /\ ~(journey' = "PROSPECT" /\ IsClearCurrent(gauge, expires))
      /\ journey' = "CUSTOMER" => IsClearCurrent(gauge, expires)
  <2>1. "PROSPECT" \in Journeys
    BY DEF Journeys
  <2> QED BY <1>1, <1>4, <2>1, PromotionIsSafe DEF WriteOutcome
<1>6. CheckInv'
  BY <1>2, <1>3, <1>5, RowStepKeeps DEF CompanyInv, CheckInv, TypeOK, RowTypeOK, staffVars
<1>7. CompanyTypeOK'
  BY <1>1, <1>6 DEF CheckInv, CompanyTypeOK, QualificationTypeOK, WriteOutcome, Outcomes,
                    CompanyInv
<1>8. QualifiedIffPastLead'
  BY <1>1, <1>2, <1>5 DEF OpenToReview, WriteOutcome, QualifiedIffPastLead
<1>9. NoPromotionMissed'
  BY <1>2, <1>5 DEF NoPromotionMissed, IsClearCurrent
<1>10. journey' # journey => JourneyStep
  BY <1>2, <1>4, <1>5 DEF JourneyStep, IsClearCurrent, Journeys
<1> QED BY <1>6, <1>7, <1>8, <1>9, <1>10 DEF CompanyInv

(* So do the row's other writers and the clock.                            *)
LEMMA RowStepKeepsCompany ==
    ASSUME CompanyInv, RowNext, UNCHANGED <<checkVars, qualification>>
    PROVE  CompanyInv' /\ UNCHANGED journey
<1>1. CheckInv'
  BY RowNextKeeps DEF CompanyInv
<1>2. UNCHANGED <<gauge, expires, journey>> /\ now' >= now /\ now \in Nat
  BY DEF RowNext, AssignRM, BringIntoPipeline, UpdateUser, Tick, rowVars, CompanyInv, CheckInv,
         TypeOK, RowTypeOK
<1>3. pipeline' = pipeline \/ pipeline' = "IN_PIPELINE"
  BY DEF RowNext, AssignRM, BringIntoPipeline, UpdateUser, Tick, rowVars
<1>4. QualifiedIffPastLead'
  BY <1>2, <1>3 DEF CompanyInv, QualifiedIffPastLead
<1>5. NoPromotionMissed'
  BY <1>1, <1>2 DEF CompanyInv, CheckInv, TypeOK, RowTypeOK, NoPromotionMissed, IsClearCurrent
<1> QED BY <1>1, <1>2, <1>4, <1>5
        DEF CompanyInv, CheckInv, CompanyTypeOK, QualificationTypeOK

-----------------------------------------------------------------------------
(* Every request on the company keeps the invariant.                       *)
LEMMA CompanyStepKeeps ==
    ASSUME CompanyInv, [CompanyNext]_companyVars
    PROVE  /\ CompanyInv'
           /\ journey' # journey => JourneyStep
<1>1. CASE CheckNext /\ UNCHANGED qualification
  <2>1. CheckInv'
    BY <1>1, StepKeeps DEF CompanyInv
  <2> QED BY <1>1, <2>1, CheckStepPromotes
          DEF CompanyInv, CheckInv, CompanyTypeOK, QualificationTypeOK
<1>2. CASE QualificationNext /\ UNCHANGED checkVars
  BY <1>2, QualificationStepKeeps
<1>3. CASE RowNext /\ UNCHANGED <<checkVars, qualification>>
  BY <1>3, RowStepKeepsCompany
<1>4. CASE UNCHANGED companyVars
  <2>1. UNCHANGED <<rowVars, staffVars, now, checkVars, qualification>>
    BY <1>4 DEF companyVars, vars
  <2>2. CheckInv'
    BY <2>1, RowStepKeeps DEF CompanyInv, CheckInv, TypeOK, RowTypeOK, rowVars, staffVars
  <2> QED BY <2>1, <2>2
          DEF CompanyInv, CheckInv, CompanyTypeOK, QualificationTypeOK, QualifiedIffPastLead,
              NoPromotionMissed, IsClearCurrent, rowVars
<1> QED BY <1>1, <1>2, <1>3, <1>4 DEF CompanyNext

(* Qualification, check and customer status agree in every committed state.*)
THEOREM CompanyInvariant == CompanySpec => []CompanyInv
<1>1. CompanyInit => CompanyInv
  BY InitKeeps
     DEF CompanyInit, CompanyInv, CompanyTypeOK, CheckInv, QualificationInit,
         QualificationTypeOK, QualificationState, QualifiedIffPastLead, NoPromotionMissed,
         Init, RowInit
<1> QED BY <1>1, CompanyStepKeeps, PTL DEF CompanySpec

(* The composed state keeps its types.                                     *)
THEOREM CompanyTypes == CompanySpec => []CompanyTypeOK
BY CompanyInvariant, PTL DEF CompanyInv

(* Only qualification takes a company past LEAD, and never leaves one      *)
(* behind.                                                                 *)
THEOREM QualifiedIffPastLeadHolds == CompanySpec => []QualifiedIffPastLead
BY CompanyInvariant, PTL DEF CompanyInv

(* Whichever of CLEAR and QUALIFIED lands second, no PROSPECT is left with *)
(* a Clear that is current.                                                *)
THEOREM NoPromotionMissedHolds == CompanySpec => []NoPromotionMissed
BY CompanyInvariant, PTL DEF CompanyInv

(* The expiry column is the current Clear's.                               *)
THEOREM ExpiryIffClearHolds == CompanySpec => []ExpiryIffClear
BY CompanyInvariant, PTL DEF CompanyInv, CheckInv

(* The journey only moves forward, to CUSTOMER only on a current Clear.    *)
THEOREM JourneyOnlyForwardHolds == CompanySpec => JourneyOnlyForward
<1>1. ASSUME CompanyInv, [CompanyNext]_companyVars PROVE [JourneyStep]_journey
  BY <1>1, CompanyStepKeeps
<1> QED BY <1>1, CompanyInvariant, PTL DEF CompanySpec, JourneyOnlyForward
=============================================================================
