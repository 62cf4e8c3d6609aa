-------------------------- MODULE Onboarding_proofs --------------------------
(***************************************************************************)
(* What holds of an onboarding request for any number of customers,        *)
(* attempts, faults, executions and signals.                               *)
(***************************************************************************)
EXTENDS Onboarding, TLAPS

\* The steps at which an execution may begin, with the status it finds.
Entries ==
  {<<1, "DRAFT">>, <<1, "ENTITY_VERIFICATION_IN_PROGRESS">>, <<1, "UNDER_REVIEW">>,
   <<2, "ENTITY_VERIFIED">>, <<2, "UBO_MAPPING_IN_PROGRESS">>,
   <<3, "UBO_MAPPING_COMPLETE">>, <<3, "DOCUMENT_COLLECTION_IN_PROGRESS">>,
   <<4, "DOCUMENT_COLLECTION_COMPLETE">>, <<4, "SCREENING_IN_PROGRESS">>,
   <<5, "SCREENING_COMPLETE">>, <<5, "RISK_RATING_IN_PROGRESS">>,
   <<6, "RISK_RATED">>, <<6, "PENDING_COMPLIANCE_APPROVAL">>,
   <<7, "APPROVED">>, <<7, "ACCOUNT_CREATION_IN_PROGRESS">>}

\* The steps that are at work, with the status they work in.
AtWork ==
  {<<1, "ENTITY_VERIFICATION_IN_PROGRESS">>, <<1, "UNDER_REVIEW">>,
   <<2, "UBO_MAPPING_IN_PROGRESS">>, <<3, "DOCUMENT_COLLECTION_IN_PROGRESS">>,
   <<4, "SCREENING_IN_PROGRESS">>, <<5, "RISK_RATING_IN_PROGRESS">>,
   <<6, "PENDING_COMPLIANCE_APPROVAL">>,
   <<7, "ACCOUNT_CREATION_IN_PROGRESS">>, <<7, "ACTIVE">>}

\* The moves each step asks for.
Moves ==
  {<<1, "DRAFT", "ENTITY_VERIFICATION_IN_PROGRESS">>,
   <<1, "ENTITY_VERIFICATION_IN_PROGRESS", "ENTITY_VERIFIED">>,
   <<1, "ENTITY_VERIFICATION_IN_PROGRESS", "UNDER_REVIEW">>,
   <<1, "ENTITY_VERIFICATION_IN_PROGRESS", "REJECTED">>,
   <<1, "UNDER_REVIEW", "ENTITY_VERIFIED">>,
   <<1, "UNDER_REVIEW", "REJECTED">>,
   <<2, "ENTITY_VERIFIED", "UBO_MAPPING_IN_PROGRESS">>,
   <<2, "UBO_MAPPING_IN_PROGRESS", "UBO_MAPPING_COMPLETE">>,
   <<3, "UBO_MAPPING_COMPLETE", "DOCUMENT_COLLECTION_IN_PROGRESS">>,
   <<3, "DOCUMENT_COLLECTION_IN_PROGRESS", "DOCUMENT_COLLECTION_COMPLETE">>,
   <<3, "DOCUMENT_COLLECTION_IN_PROGRESS", "ABANDONED">>,
   <<4, "DOCUMENT_COLLECTION_COMPLETE", "SCREENING_IN_PROGRESS">>,
   <<4, "SCREENING_IN_PROGRESS", "SCREENING_COMPLETE">>,
   <<4, "SCREENING_IN_PROGRESS", "REJECTED">>,
   <<5, "SCREENING_COMPLETE", "RISK_RATING_IN_PROGRESS">>,
   <<5, "RISK_RATING_IN_PROGRESS", "RISK_RATED">>,
   <<6, "RISK_RATED", "PENDING_COMPLIANCE_APPROVAL">>,
   <<6, "PENDING_COMPLIANCE_APPROVAL", "APPROVED">>,
   <<6, "PENDING_COMPLIANCE_APPROVAL", "REJECTED">>,
   <<7, "APPROVED", "ACCOUNT_CREATION_IN_PROGRESS">>,
   <<7, "ACCOUNT_CREATION_IN_PROGRESS", "ACTIVE">>}

\* Where an execution is in its steps agrees with the status it believes in.
Placed(e) ==
  /\ e.doing \in {"call", "wait"} => <<e.step, e.at>> \in AtWork
  /\ e.doing = "wait" => e.step \in {1, 3, 6}
  /\ e.doing \in {"move", "resolve"} => <<e.step, e.at, e.to>> \in Moves

Activating == {"ACCOUNT_CREATION_IN_PROGRESS", "ACTIVE"}

\* Until DRAFT is left nothing is recorded.
NothingYet == status = "DRAFT" => events = << >>

\* The row and its events.
RowOK ==
  /\ status \in Life!Statuses
  /\ events \in Seq([from : Life!Statuses, to : Life!Statuses,
                    by : Customers \cup {Workflow}])
  /\ details \in Customers \cup {NoOne}
  /\ NothingYet
  /\ DetailsComeWithTheirMove

\* The execution: one that believes accounts are due is right.
RunOK ==
  /\ execution \in Executions
  /\ Placed(execution)
  /\ execution.at \in Activating => status \in Activating

\* The submissions, the late attempts, and the accounts.
RestOK ==
  /\ customer \in [Customers -> {"idle", "read", "resolve", "accepted", "refused"}]
  /\ stray \subseteq Life!Statuses \X Life!Statuses
  /\ opened \in BOOLEAN
  /\ AccountsOnlyOnceApproved

OnboardingInv == RowOK /\ RunOK /\ RestOK

-----------------------------------------------------------------------------
(* The execution's operators, by the fields they set *)

\* Moving asks for one transition and leaves the rest of the execution alone.
LEMMA MovingFields ==
  ASSUME NEW e \in Executions, NEW to \in Life!Statuses
  PROVE  /\ Moving(e, to) \in Executions
         /\ Moving(e, to).doing = "move" /\ Moving(e, to).to = to
         /\ Moving(e, to).at = e.at /\ Moving(e, to).step = e.step
BY DEF Moving, Executions, Progress

\* Waiting keeps the place.
LEMMA WaitingFields ==
  ASSUME NEW e \in Executions
  PROVE  /\ Waiting(e) \in Executions
         /\ Waiting(e).doing = "wait"
         /\ Waiting(e).at = e.at /\ Waiting(e).step = e.step
BY DEF Waiting, Executions, Progress

\* So does calling a dependency.
LEMMA CallingFields ==
  ASSUME NEW e \in Executions
  PROVE  /\ Calling(e) \in Executions
         /\ Calling(e).doing = "call"
         /\ Calling(e).at = e.at /\ Calling(e).step = e.step
BY DEF Calling, Executions, Progress

\* And checking the documents.
LEMMA CheckingFields ==
  ASSUME NEW e \in Executions
  PROVE  /\ Checking(e) \in Executions
         /\ Checking(e).doing = "call"
         /\ Checking(e).at = e.at /\ Checking(e).step = e.step
<1>1. Calling(e) \in Executions /\ Calling(e).doing = "call"
        /\ Calling(e).at = e.at /\ Calling(e).step = e.step
  BY CallingFields
<1> HIDE DEF Calling
<1> QED
  BY <1>1 DEF Checking, Executions

\* An execution that has ended is at the start.
LEMMA OffFields == Off \in Executions /\ Placed(Off) /\ Off.at = "DRAFT"
BY DEF Off, Executions, Progress, Steps, Placed, Life!Statuses

\* An execution begins a step by working in it or by asking to enter it.
LEMMA BeginPlaced ==
  ASSUME NEW e \in Executions, NEW k \in Steps, <<k, e.at>> \in Entries
  PROVE  Begin(e, k) \in Executions /\ Placed(Begin(e, k)) /\ Begin(e, k).at = e.at
<1> DEFINE b == [e EXCEPT !.step = k]
<1>1. b \in Executions /\ b.at = e.at /\ b.step = k
  BY DEF Executions
<1> HIDE DEF b
<1>2. InProgress[k] \in Life!Statuses
  BY DEF InProgress, Steps, Life!Statuses
<1>3. CASE e.at = InProgress[k] \/ (k = 1 /\ e.at # "DRAFT")
  <2>1. <<k, e.at>> \in AtWork
    BY <1>3 DEF Entries, AtWork, InProgress, Steps
  <2>2. Begin(e, k) = IF k = 3 THEN Checking(b) ELSE Calling(b)
    BY <1>3 DEF Begin, b
  <2> QED
    BY <1>1, <2>1, <2>2, CheckingFields, CallingFields DEF Placed
<1>4. CASE ~(e.at = InProgress[k] \/ (k = 1 /\ e.at # "DRAFT"))
  <2>1. <<k, e.at, InProgress[k]>> \in Moves
    BY <1>4 DEF Entries, Moves, InProgress, Steps
  <2>2. Begin(e, k) = Moving(b, InProgress[k])
    BY <1>4 DEF Begin, b
  <2> QED
    BY <1>1, <1>2, <2>1, <2>2, MovingFields DEF Placed
<1> QED
  BY <1>3, <1>4

\* An execution resumes at a step that its request's status enters.
LEMMA ResumeEnters ==
  ASSUME NEW s \in Life!Statuses, s \notin Life!Terminal
  PROVE  Resume(s) \in Steps /\ <<Resume(s), s>> \in Entries
<1>1. CASE s \in {"DRAFT", "UNDER_REVIEW"}
  BY <1>1 DEF Resume, Steps, Entries
<1>2. CASE s \notin {"DRAFT", "UNDER_REVIEW"}
  <2> DEFINE P(k) == s = InProgress[k] \/ (k > 1 /\ s = Completed[k - 1])
  <2>1. \E k \in Steps : P(k)
    BY <1>2 DEF Steps, InProgress, Completed, Life!Statuses, Life!Terminal
  <2>2. Resume(s) = CHOOSE k \in Steps : P(k)
    BY <1>2 DEF Resume
  <2>3. Resume(s) \in Steps /\ P(Resume(s))
    BY <2>1, <2>2
  <2> QED
    BY <2>3, <1>2 DEF Steps, InProgress, Completed, Entries
<1> QED
  BY <1>1, <1>2

\* A move that was made places the execution at the status it moved to.
LEMMA ArrivedPlaced ==
  ASSUME NEW e \in Executions, <<e.step, e.at, e.to>> \in Moves
  PROVE  /\ Arrived(e) \in Executions /\ Placed(Arrived(e))
         /\ Arrived(e).at \in {"DRAFT", e.to}
<1> DEFINE a == [e EXCEPT !.at = e.to]
<1>1. a \in Executions /\ a.at = e.to /\ a.step = e.step
  BY DEF Executions
<1> HIDE DEF a
<1>s. e.step \in Steps
  BY DEF Executions
<1>2. CASE e.to \in {"REJECTED", "ABANDONED"}
  BY <1>1, <1>2, OffFields DEF Arrived, a
<1>3. CASE e.to = "UNDER_REVIEW"
  <2>1. Arrived(e) = Waiting(a)
    BY <1>1, <1>3 DEF Arrived, a
  <2>2. e.step = 1
    BY <1>3 DEF Moves
  <2> QED
    BY <1>1, <1>3, <2>1, <2>2, WaitingFields DEF Placed, AtWork
<1>4. CASE e.to = "ACTIVE"
  <2>1. Arrived(e) = Calling(a)
    BY <1>1, <1>4 DEF Arrived, a
  <2>2. e.step = 7
    BY <1>4 DEF Moves
  <2> QED
    BY <1>1, <1>4, <2>1, <2>2, CallingFields DEF Placed, AtWork
<1>5. CASE /\ e.to \notin {"REJECTED", "ABANDONED", "UNDER_REVIEW", "ACTIVE"}
           /\ e.to = Completed[e.step]
  <2>1. Arrived(e) = Begin(a, e.step + 1)
    BY <1>1, <1>5 DEF Arrived, a
  <2>2. e.step + 1 \in Steps /\ <<e.step + 1, e.to>> \in Entries
    BY <1>5, <1>s DEF Completed, Steps, Entries
  <2> QED
    BY <1>1, <2>1, <2>2, BeginPlaced
<1>6. CASE /\ e.to \notin {"REJECTED", "ABANDONED", "UNDER_REVIEW", "ACTIVE"}
           /\ e.to # Completed[e.step]
  <2>1. Arrived(e) = Begin(a, e.step)
    BY <1>1, <1>6 DEF Arrived, a
  <2>2. <<e.step, e.to>> \in Entries
    BY <1>6, <1>s DEF Completed, Steps, Entries, Moves
  <2> QED
    BY <1>1, <1>s, <2>1, <2>2, BeginPlaced
<1> QED
  BY <1>2, <1>3, <1>4, <1>5, <1>6

\* A verification outcome places the execution.
LEMMA JudgePlaced ==
  ASSUME NEW e \in Executions, NEW o, e.step = 1, <<1, e.at>> \in AtWork
  PROVE  Judge(e, o) \in Executions /\ Placed(Judge(e, o)) /\ Judge(e, o).at = e.at
<1>1. e.at \in {"ENTITY_VERIFICATION_IN_PROGRESS", "UNDER_REVIEW"}
  BY DEF AtWork
<1>2. \A to \in {"ENTITY_VERIFIED", "REJECTED"} : <<1, e.at, to>> \in Moves
  BY <1>1 DEF Moves
<1>3. e.at # "UNDER_REVIEW" => <<1, e.at, "UNDER_REVIEW">> \in Moves
  BY <1>1 DEF Moves
<1>4. {"ENTITY_VERIFIED", "REJECTED", "UNDER_REVIEW"} \subseteq Life!Statuses
  BY DEF Life!Statuses
<1>5. \A to \in {"ENTITY_VERIFIED", "REJECTED", "UNDER_REVIEW"} :
        <<1, e.at, to>> \in Moves =>
          /\ Moving(e, to) \in Executions /\ Placed(Moving(e, to))
          /\ Moving(e, to).at = e.at
  BY <1>4, MovingFields DEF Placed
<1>6. Waiting(e) \in Executions /\ Placed(Waiting(e)) /\ Waiting(e).at = e.at
  BY WaitingFields DEF Placed
<1> QED
  BY <1>2, <1>3, <1>5, <1>6 DEF Judge

\* So does a compliance decision.
LEMMA DecidePlaced ==
  ASSUME NEW e \in Executions, NEW d, e.step = 6, <<6, e.at>> \in AtWork
  PROVE  Decide(e, d) \in Executions /\ Placed(Decide(e, d)) /\ Decide(e, d).at = e.at
<1>1. \A to \in {"APPROVED", "REJECTED"} : <<6, e.at, to>> \in Moves
  BY DEF AtWork, Moves
<1>2. {"APPROVED", "REJECTED"} \subseteq Life!Statuses
  BY DEF Life!Statuses
<1>3. \A to \in {"APPROVED", "REJECTED"} :
        /\ Moving(e, to) \in Executions /\ Placed(Moving(e, to))
        /\ Moving(e, to).at = e.at
  BY <1>1, <1>2, MovingFields DEF Placed
<1>4. Waiting(e) \in Executions /\ Placed(Waiting(e)) /\ Waiting(e).at = e.at
  BY WaitingFields DEF Placed
<1> QED
  BY <1>3, <1>4 DEF Decide

\* An attempt keeps the place.
LEMMA AttemptFields ==
  ASSUME NEW e \in Executions, NEW n \in Nat, NEW d \in Progress
  PROVE  LET r == [e EXCEPT !.tries = n, !.doing = d] IN
         /\ r \in Executions /\ r.doing = d
         /\ r.at = e.at /\ r.to = e.to /\ r.step = e.step
BY DEF Executions

\* Another attempt is made from the same place.
LEMMA RetryPlaced ==
  ASSUME NEW e \in Executions, Placed(e)
  PROVE  Retry(e) \in Executions /\ Placed(Retry(e)) /\ Retry(e).at \in {"DRAFT", e.at}
<1>1. CASE e.tries + 1 < Attempts
  <2> DEFINE d == IF e.doing = "resolve" THEN "move" ELSE e.doing
             r == [e EXCEPT !.tries = @ + 1, !.doing = d]
  <2>1. d \in Progress
    BY DEF Executions, Progress
  <2>2. Retry(e) = r
    BY <1>1 DEF Retry
  <2>3. d = "resolve" \/ d = "move" \/ d = e.doing
    OBVIOUS
  <2>4. (e.doing = "resolve" \/ e.doing = "move") <=> d = "move"
    OBVIOUS
  <2>5. d # "resolve"
    OBVIOUS
  <2>6. r \in Executions /\ r.at = e.at /\ r.to = e.to /\ r.step = e.step /\ r.doing = d
    <3>1. e.tries + 1 \in Nat
      BY DEF Executions
    <3> HIDE DEF d
    <3> QED
      BY <2>1, <3>1, AttemptFields
  <2> HIDE DEF d
  <2> HIDE DEF r
  <2> QED
    BY <2>2, <2>3, <2>4, <2>5, <2>6 DEF Placed
<1>2. CASE ~(e.tries + 1 < Attempts)
  BY <1>2, OffFields DEF Retry
<1> QED
  BY <1>1, <1>2

-----------------------------------------------------------------------------
(* The row *)

\* Every edge of the table is between statuses, none leads back to DRAFT, and
\* activation only leads on to ACTIVE.
LEMMA PermittedEdges ==
  ASSUME NEW from, NEW to, <<from, to>> \in Life!Permitted
  PROVE  /\ from \in Life!Statuses /\ to \in Life!Statuses
         /\ to # "DRAFT"
         /\ from \in Activating => to \in Activating
BY DEF Life!Permitted, Life!Statuses, Activating

\* Every move a step asks for is an edge of the table.
LEMMA MovesPermitted ==
  ASSUME NEW k, NEW from, NEW to, <<k, from, to>> \in Moves
  PROVE  <<from, to>> \in Life!Permitted
BY DEF Moves, Life!Permitted

\* The compare-and-set keeps the row, its events and its details in step, if a
\* customer's details come with the move that leaves DRAFT.
LEMMA CrossKeepsRow ==
  ASSUME RowOK, NEW from, NEW to, NEW who \in Customers \cup {Workflow},
         <<from, to>> \in Life!Permitted, Cross(from, to, who),
         \/ who = Workflow /\ details' = details
         \/ who \in Customers /\ from = "DRAFT" /\ details' = who
  PROVE  RowOK' /\ (status \in Activating => status' \in Activating)
<1> DEFINE ev == [from |-> from, to |-> to, by |-> who]
<1>1. from \in Life!Statuses /\ to \in Life!Statuses /\ to # "DRAFT"
        /\ (from \in Activating => to \in Activating)
  BY PermittedEdges
<1>2. status = from /\ status' = to /\ events' = Append(events, ev)
  BY DEF Cross, Matches
<1>3. ev \in [from : Life!Statuses, to : Life!Statuses, by : Customers \cup {Workflow}]
  BY <1>1
<1>4. ev.by = who
  OBVIOUS
<1> HIDE DEF ev
<1>5. events' \in Seq([from : Life!Statuses, to : Life!Statuses,
                       by : Customers \cup {Workflow}])
  BY <1>2, <1>3 DEF RowOK
<1>6. /\ Len(events') = Len(events) + 1 /\ Len(events) \in Nat
      /\ events'[Len(events) + 1] = ev
      /\ \A i \in 1 .. Len(events) : events'[i] = events[i]
      /\ DOMAIN events = 1 .. Len(events)
      /\ DOMAIN events' = 1 .. Len(events) + 1
  BY <1>2, <1>3, <1>5 DEF RowOK
<1>7. \A c \in Customers :
        (\E i \in DOMAIN events' : events'[i].by = c)
          <=> (c = who \/ \E i \in DOMAIN events : events[i].by = c)
  BY <1>4, <1>6
<1>8. Workflow \notin Customers /\ NoOne \notin Customers
  BY CustomersAssumption DEF Workflow, NoOne
<1>9. DetailsComeWithTheirMove'
  <2>1. CASE who = Workflow /\ details' = details
    BY <2>1, <1>7, <1>8 DEF DetailsComeWithTheirMove, RowOK
  <2>2. CASE who \in Customers /\ from = "DRAFT" /\ details' = who
    <3>1. events = << >>
      BY <2>2, <1>2 DEF RowOK, NothingYet
    <3>2. ~ \E i \in DOMAIN events : TRUE
      BY <3>1
    <3> QED
      BY <2>2, <3>2, <1>7 DEF DetailsComeWithTheirMove
  <2> QED
    BY <2>1, <2>2
<1> QED
  BY <1>1, <1>2, <1>5, <1>9 DEF RowOK, NothingYet

-----------------------------------------------------------------------------
(* Every step keeps the invariant *)

\* A new request satisfies it.
LEMMA InitInv == Init => OnboardingInv
<1> SUFFICES ASSUME Init PROVE OnboardingInv
  OBVIOUS
<1>1. Workflow \notin Customers /\ NoOne \notin Customers
  BY CustomersAssumption DEF Workflow, NoOne
<1>2. RowOK
  <2>1. events = << >> /\ details = NoOne
    BY DEF Init
  <2>2. ~ \E i \in DOMAIN events : TRUE
    BY <2>1
  <2>3. DetailsComeWithTheirMove
    BY <1>1, <2>1, <2>2 DEF DetailsComeWithTheirMove
  <2>4. events \in Seq([from : Life!Statuses, to : Life!Statuses,
                      by : Customers \cup {Workflow}])
    BY <2>1
  <2>5. status \in Life!Statuses
    BY DEF Init, Life!Statuses
  <2> QED
    BY <2>1, <2>3, <2>4, <2>5 DEF RowOK, NothingYet
<1>3. RunOK
  BY OffFields DEF Init, RunOK, Activating
<1>4. RestOK
  BY DEF Init, RestOK, AccountsOnlyOnceApproved
<1> QED
  BY <1>2, <1>3, <1>4 DEF OnboardingInv

\* A step that leaves the row alone leaves it right.
LEMMA RowUnchanged ==
  ASSUME RowOK, UNCHANGED <<status, events, details>>
  PROVE  RowOK'
BY DEF RowOK, NothingYet, DetailsComeWithTheirMove

\* An execution that stays where it is stays right.
LEMMA StaysRight ==
  ASSUME RunOK, UNCHANGED status,
         execution' \in Executions, Placed(execution'),
         execution'.at \in {"DRAFT", execution.at, status}
  PROVE  RunOK'
BY DEF RunOK, Activating, Placed

\* What an execution does of its own, other than to move the row.
LEMMA OwnStepsInv ==
  ASSUME OnboardingInv,
         \/ Load \/ Resolve \/ VerifyEntity \/ MapOrRate \/ CheckDocuments \/ Screen
         \/ RequestApproval \/ WakeOnAnswer \/ WakeOnDocument \/ Abandon
  PROVE  OnboardingInv'
<1>1. RowOK /\ RunOK /\ RestOK
  BY DEF OnboardingInv
<1>2. execution \in Executions /\ Placed(execution) /\ status \in Life!Statuses
  BY <1>1 DEF RunOK, RowOK
<1>3. UNCHANGED <<status, events, details, customer, stray, opened>>
  BY DEF Load, Resolve, VerifyEntity, MapOrRate, CheckDocuments, Screen,
         RequestApproval, WakeOnAnswer, WakeOnDocument, Abandon
<1>4. RowOK' /\ RestOK'
  BY <1>1, <1>3, RowUnchanged DEF RestOK, AccountsOnlyOnceApproved
<1> DEFINE Good == /\ execution' \in Executions /\ Placed(execution')
                   /\ execution'.at \in {"DRAFT", execution.at, status}
<1>5. CASE Load
  <2>1. CASE status \in Life!Terminal
    BY <2>1, <1>5, <1>4, <1>1, <1>3, OffFields, StaysRight DEF Load, OnboardingInv
  <2>2. CASE status \notin Life!Terminal
    <3> DEFINE l == [execution EXCEPT !.at = status]
    <3>1. l \in Executions /\ l.at = status
      BY <1>2 DEF Executions
    <3>2. execution' = Begin(l, Resume(status))
      BY <1>5, <2>2 DEF Load
    <3> HIDE DEF l
    <3>3. Good
      BY <1>2, <2>2, <3>1, <3>2, ResumeEnters, BeginPlaced
    <3> QED
      BY <3>3, <1>1, <1>3, <1>4, StaysRight DEF OnboardingInv
  <2> QED
    BY <2>1, <2>2
<1>6. CASE Resolve
  <2>1. execution.doing = "resolve" /\ <<execution.step, execution.at, execution.to>> \in Moves
    BY <1>2, <1>6 DEF Resolve, Placed
  <2>2. CASE AlreadyApplied(execution.at, execution.to)
    <3>1. status = execution.to /\ execution' = Arrived(execution)
      BY <1>6, <2>2 DEF Resolve, AlreadyApplied
    <3>2. Good
      BY <1>2, <2>1, <3>1, ArrivedPlaced
    <3> QED
      BY <3>2, <1>1, <1>3, <1>4, StaysRight DEF OnboardingInv
  <2>3. CASE ~AlreadyApplied(execution.at, execution.to)
    BY <2>3, <1>6, <1>1, <1>3, <1>4, OffFields, StaysRight DEF Resolve, OnboardingInv
  <2> QED
    BY <2>2, <2>3
<1>7. CASE VerifyEntity
  <2>1. execution.step = 1 /\ <<1, execution.at>> \in AtWork
    BY <1>2, <1>7 DEF VerifyEntity, Called, Placed
  <2>2. PICK o \in KybOutcomes : execution' = Judge(execution, o)
    BY <1>7 DEF VerifyEntity
  <2>3. Good
    BY <1>2, <2>1, <2>2, JudgePlaced
  <2> QED
    BY <2>3, <1>1, <1>3, <1>4, StaysRight DEF OnboardingInv
<1>8. CASE MapOrRate
  <2> DEFINE to == Completed[execution.step]
  <2>1. execution.step \in {2, 5} /\ <<execution.step, execution.at>> \in AtWork
    BY <1>2, <1>8 DEF MapOrRate, Called, Placed
  <2>2. to \in Life!Statuses /\ <<execution.step, execution.at, to>> \in Moves
    BY <2>1 DEF Completed, AtWork, Moves, Life!Statuses
  <2>3. execution' = Moving(execution, to)
    BY <1>8 DEF MapOrRate
  <2> HIDE DEF to
  <2>4. Good
    BY <1>2, <2>2, <2>3, MovingFields DEF Placed
  <2> QED
    BY <2>4, <1>1, <1>3, <1>4, StaysRight DEF OnboardingInv
<1>9. CASE CheckDocuments
  <2>1. execution.step = 3 /\ <<3, execution.at>> \in AtWork
    BY <1>2, <1>9 DEF CheckDocuments, Called, Placed
  <2>2. Completed[3] \in Life!Statuses /\ <<3, execution.at, Completed[3]>> \in Moves
    BY <2>1 DEF Completed, AtWork, Moves, Life!Statuses
  <2>3. execution' \in {Moving(execution, Completed[3]), Checking(execution), Waiting(execution)}
    BY <1>9 DEF CheckDocuments
  <2>4. Good
    BY <1>2, <2>1, <2>2, <2>3, MovingFields, CheckingFields, WaitingFields DEF Placed
  <2> QED
    BY <2>4, <1>1, <1>3, <1>4, StaysRight DEF OnboardingInv
<1>10. CASE Screen
  <2>1. execution.step = 4 /\ <<4, execution.at>> \in AtWork
    BY <1>2, <1>10 DEF Screen, Called, Placed
  <2>2. \A to \in {"REJECTED", Completed[4]} :
          to \in Life!Statuses /\ <<4, execution.at, to>> \in Moves
    BY <2>1 DEF Completed, AtWork, Moves, Life!Statuses
  <2>3. PICK to \in {"REJECTED", Completed[4]} : execution' = Moving(execution, to)
    BY <1>10 DEF Screen
  <2>4. Good
    BY <1>2, <2>1, <2>2, <2>3, MovingFields DEF Placed
  <2> QED
    BY <2>4, <1>1, <1>3, <1>4, StaysRight DEF OnboardingInv
<1>11. CASE RequestApproval
  <2>1. execution.step = 6 /\ <<6, execution.at>> \in AtWork
    BY <1>2, <1>11 DEF RequestApproval, Called, Placed
  <2>2. PICK d \in Decisions : execution' = Decide(execution, d)
    BY <1>11 DEF RequestApproval
  <2>3. Good
    BY <1>2, <2>1, <2>2, DecidePlaced
  <2> QED
    BY <2>3, <1>1, <1>3, <1>4, StaysRight DEF OnboardingInv
<1>12. CASE WakeOnAnswer
  <2>1. <<execution.step, execution.at>> \in AtWork
    BY <1>2, <1>12 DEF WakeOnAnswer, Placed
  <2>2. CASE /\ execution.step = 1 /\ execution.answers # << >>
             /\ execution' = Judge([execution EXCEPT !.answers = Tail(@)], Head(execution.answers))
    <3> DEFINE h == [execution EXCEPT !.answers = Tail(@)]
    <3>1. h \in Executions /\ h.step = execution.step /\ h.at = execution.at
      BY <1>2, <2>2 DEF Executions
    <3>2. execution' = Judge(h, Head(execution.answers))
      BY <2>2
    <3> HIDE DEF h
    <3>3. Good
      BY <2>1, <2>2, <3>1, <3>2, JudgePlaced
    <3> QED
      BY <3>3, <1>1, <1>3, <1>4, StaysRight DEF OnboardingInv
  <2>3. CASE /\ execution.step = 6 /\ execution.decisions # << >>
             /\ execution' = Decide([execution EXCEPT !.decisions = Tail(@)],
                                    Head(execution.decisions))
    <3> DEFINE rest == Tail(execution.decisions)
               h == [execution EXCEPT !.decisions = rest]
    <3>0. rest \in Seq(Decisions)
      <4>1. execution.decisions \in Seq(Decisions)
        BY <1>2 DEF Executions
      <4> QED
        BY <2>3, <4>1
    <3>1. h \in Executions /\ h.step = execution.step /\ h.at = execution.at
      BY <1>2, <3>0 DEF Executions
    <3>2. execution' = Decide(h, Head(execution.decisions))
      BY <2>3
    <3> HIDE DEF h
    <3>3. Good
      BY <2>1, <2>3, <3>1, <3>2, DecidePlaced
    <3> QED
      BY <3>3, <1>1, <1>3, <1>4, StaysRight DEF OnboardingInv
  <2> QED
    BY <1>12, <2>2, <2>3 DEF WakeOnAnswer
<1>13. CASE WakeOnDocument
  <2>1. <<execution.step, execution.at>> \in AtWork /\ execution' = Checking(execution)
    BY <1>2, <1>13 DEF WakeOnDocument, Placed
  <2>2. Good
    BY <1>2, <2>1, CheckingFields DEF Placed
  <2> QED
    BY <2>2, <1>1, <1>3, <1>4, StaysRight DEF OnboardingInv
<1>14. CASE Abandon
  <2>1. /\ <<3, execution.at>> \in AtWork /\ execution.step = 3
        /\ execution' = Moving(execution, "ABANDONED")
    BY <1>2, <1>14 DEF Abandon, Placed
  <2>2. "ABANDONED" \in Life!Statuses /\ <<3, execution.at, "ABANDONED">> \in Moves
    BY <2>1 DEF AtWork, Moves, Life!Statuses
  <2>3. Good
    BY <1>2, <2>1, <2>2, MovingFields DEF Placed
  <2> QED
    BY <2>3, <1>1, <1>3, <1>4, StaysRight DEF OnboardingInv
<1> QED
  BY <1>5, <1>6, <1>7, <1>8, <1>9, <1>10, <1>11, <1>12, <1>13, <1>14

\* An answered attempt of the transition.
LEMMA MoveInv ==
  ASSUME OnboardingInv, Move
  PROVE  OnboardingInv'
<1>1. RowOK /\ RunOK /\ RestOK
  BY DEF OnboardingInv
<1>2. /\ execution \in Executions /\ Placed(execution)
      /\ <<execution.step, execution.at, execution.to>> \in Moves
  BY <1>1 DEF RunOK, Move, Placed
<1>3. <<execution.at, execution.to>> \in Life!Permitted
  BY <1>2, MovesPermitted
<1>4. UNCHANGED <<details, customer, stray, opened>>
  BY DEF Move
<1>5. CASE Cross(execution.at, execution.to, Workflow) /\ execution' = Arrived(execution)
  <2>1. RowOK' /\ (status \in Activating => status' \in Activating)
    BY <1>1, <1>3, <1>4, <1>5, CrossKeepsRow
  <2>2. status' = execution.to
    BY <1>5 DEF Cross
  <2>3. execution' \in Executions /\ Placed(execution') /\ execution'.at \in {"DRAFT", status'}
    BY <1>2, <1>5, <2>2, ArrivedPlaced
  <2>4. RunOK'
    BY <2>3 DEF RunOK, Placed, Activating
  <2>5. RestOK'
    BY <1>1, <1>4, <2>1 DEF RestOK, AccountsOnlyOnceApproved, Activating
  <2> QED
    BY <2>1, <2>4, <2>5 DEF OnboardingInv
<1>6. CASE /\ execution' = [execution EXCEPT !.doing = "resolve"]
           /\ UNCHANGED <<status, events>>
  <2>1. /\ execution' \in Executions /\ execution'.doing = "resolve"
        /\ execution'.step = execution.step
        /\ execution'.at = execution.at /\ execution'.to = execution.to
    BY <1>2, <1>6 DEF Executions, Progress
  <2>2. Placed(execution')
    BY <1>2, <2>1 DEF Placed
  <2>3. RunOK'
    BY <1>1, <1>6, <2>1, <2>2, StaysRight
  <2> QED
    BY <1>1, <1>4, <1>6, <2>3, RowUnchanged DEF OnboardingInv, RestOK, AccountsOnlyOnceApproved
<1> QED
  BY <1>3, <1>5, <1>6 DEF Move

\* The accounts are opened in an execution that is right to do so.
LEMMA RightToOpen ==
  ASSUME OnboardingInv, Called(7)
  PROVE  status \in Activating
<1>1. <<7, execution.at>> \in AtWork
  BY DEF OnboardingInv, RunOK, Called, Placed
<1>2. execution.at \in Activating
  BY <1>1 DEF AtWork, Activating
<1> QED
  BY <1>2 DEF OnboardingInv, RunOK

\* Activation.
LEMMA ActivateInv ==
  ASSUME OnboardingInv, Activate
  PROVE  OnboardingInv'
<1>1. RowOK /\ RunOK /\ RestOK
  BY DEF OnboardingInv
<1>2. execution \in Executions /\ execution.step = 7 /\ <<7, execution.at>> \in AtWork
  BY <1>1 DEF RunOK, Activate, Called, Placed
<1>3. UNCHANGED <<status, events, details, customer, stray>> /\ opened' = TRUE
  BY DEF Activate
<1>4. RestOK'
  <2>1. status \in Activating
    BY RightToOpen DEF Activate
  <2> QED
    BY <1>1, <1>3, <2>1 DEF RestOK, AccountsOnlyOnceApproved, Activating
<1>5. RunOK'
  <2>1. CASE execution.at = "ACTIVE"
    BY <1>1, <1>3, <2>1, OffFields, StaysRight DEF Activate
  <2>2. CASE execution.at # "ACTIVE"
    <3>1. Completed[7] \in Life!Statuses /\ <<7, execution.at, Completed[7]>> \in Moves
      BY <1>2, <2>2 DEF Completed, AtWork, Moves, Life!Statuses
    <3>2. execution' = Moving(execution, Completed[7])
      BY <2>2 DEF Activate
    <3>3. execution' \in Executions /\ Placed(execution') /\ execution'.at = execution.at
      BY <1>2, <3>1, <3>2, MovingFields DEF Placed
    <3> QED
      BY <1>1, <1>3, <3>3, StaysRight
  <2> QED
    BY <2>1, <2>2
<1> QED
  BY <1>1, <1>3, <1>4, <1>5, RowUnchanged DEF OnboardingInv

\* A start, a signal or a fault.
LEMMA OutsideInv ==
  ASSUME OnboardingInv, Start \/ Hear \/ LoseMove \/ LoseCall
  PROVE  OnboardingInv'
<1>1. RowOK /\ RunOK /\ RestOK
  BY DEF OnboardingInv
<1>2. execution \in Executions /\ Placed(execution)
  BY <1>1 DEF RunOK
<1>3. UNCHANGED <<status, events, details, customer>>
  BY DEF Start, Hear, LoseMove, LoseCall
<1>4. RowOK'
  BY <1>1, <1>3, RowUnchanged
<1>5. RunOK'
  <2>1. CASE Start
    <3>1. execution' = [Off EXCEPT !.doing = "load"]
      BY <2>1 DEF Start
    <3>2. execution' \in Executions /\ execution'.doing = "load" /\ execution'.at = "DRAFT"
      BY <3>1, OffFields DEF Executions, Progress
    <3> QED
      BY <1>1, <1>3, <3>2, StaysRight DEF Placed
  <2>2. CASE Hear
    <3>1. PICK o \in KybOutcomes, d \in Decisions :
            execution' \in {[execution EXCEPT !.answers = Append(@, o)],
                            [execution EXCEPT !.decisions = Append(@, d)],
                            [execution EXCEPT !.docs = TRUE]}
      BY <2>2 DEF Hear, HearKyb, HearDecision, HearDocument, KybOutcomes, Decisions
    <3>2. /\ Append(execution.answers, o) \in Seq(KybOutcomes)
          /\ Append(execution.decisions, d) \in Seq(Decisions)
      BY <1>2, <3>1 DEF Executions
    <3>3. /\ execution' \in Executions
          /\ execution'.doing = execution.doing /\ execution'.step = execution.step
          /\ execution'.at = execution.at /\ execution'.to = execution.to
      BY <1>2, <3>1, <3>2 DEF Executions
    <3>4. Placed(execution')
      BY <1>2, <3>3 DEF Placed
    <3> QED
      BY <1>1, <1>3, <3>3, <3>4, StaysRight
  <2>3. CASE LoseMove \/ LoseCall
    <3>1. execution' = Retry(execution)
      BY <2>3 DEF LoseMove, LoseCall
    <3> QED
      BY <1>1, <1>2, <1>3, <3>1, RetryPlaced, StaysRight
  <2> QED
    BY <2>1, <2>2, <2>3
<1>6. RestOK'
  <2>1. CASE Start \/ Hear
    BY <1>1, <1>3, <2>1 DEF Start, Hear, RestOK, AccountsOnlyOnceApproved
  <2>2. CASE LoseMove
    <3>1. <<execution.at, execution.to>> \in Life!Statuses \X Life!Statuses
      BY <1>2 DEF Executions
    <3> QED
      BY <1>1, <1>3, <2>2, <3>1 DEF LoseMove, RestOK, AccountsOnlyOnceApproved
  <2>3. CASE LoseCall
    <3>1. opened' = (opened \/ Called(7)) /\ stray' = stray
      BY <2>3 DEF LoseCall
    <3>2. opened' => status \in Activating
      BY <1>1, <3>1, RightToOpen DEF RestOK, AccountsOnlyOnceApproved, Activating
    <3>3. opened' \in BOOLEAN
      BY <3>1
    <3> QED
      BY <1>1, <1>3, <3>1, <3>2, <3>3 DEF RestOK, AccountsOnlyOnceApproved, Activating
  <2> QED
    BY <2>1, <2>2, <2>3
<1> QED
  BY <1>4, <1>5, <1>6 DEF OnboardingInv

\* A late attempt may move the row under the execution that runs.
LEMMA StrayInv ==
  ASSUME OnboardingInv, StrayEnds
  PROVE  OnboardingInv'
<1>1. RowOK /\ RunOK /\ RestOK
  BY DEF OnboardingInv
<1>2. UNCHANGED <<details, customer, execution, opened>> /\ stray' \subseteq stray
  BY DEF StrayEnds
<1>3. RowOK' /\ (status \in Activating => status' \in Activating)
  <2>1. PICK m \in stray :
          \/ m \in Life!Permitted /\ Cross(m[1], m[2], Workflow)
          \/ UNCHANGED <<status, events>>
    BY DEF StrayEnds
  <2>2. CASE m \in Life!Permitted /\ Cross(m[1], m[2], Workflow)
    <3>1. m = <<m[1], m[2]>>
      BY <1>1, <2>1 DEF RestOK
    <3>2. <<m[1], m[2]>> \in Life!Permitted
      BY <2>2, <3>1
    <3> QED
      BY <1>1, <1>2, <2>2, <3>2, CrossKeepsRow
  <2>3. CASE UNCHANGED <<status, events>>
    BY <1>1, <1>2, <2>3, RowUnchanged
  <2> QED
    BY <2>1, <2>2, <2>3
<1>4. RunOK'
  BY <1>1, <1>2, <1>3 DEF RunOK, Placed
<1>5. RestOK'
  BY <1>1, <1>2, <1>3 DEF RestOK, AccountsOnlyOnceApproved, Activating
<1> QED
  BY <1>3, <1>4, <1>5 DEF OnboardingInv

\* A customer's submission.
LEMMA SubmissionInv ==
  ASSUME OnboardingInv, NEW c \in Customers, Submission(c)
  PROVE  OnboardingInv'
<1>1. RowOK /\ RunOK /\ RestOK
  BY DEF OnboardingInv
<1>2. UNCHANGED <<execution, stray, opened>>
  BY DEF Submission, SubmitReads, SubmitMoves, SubmitUnmoved, SubmitResolves
<1>3. customer' \in [Customers -> {"idle", "read", "resolve", "accepted", "refused"}]
  BY <1>1 DEF Submission, SubmitReads, SubmitMoves, SubmitUnmoved, SubmitResolves, RestOK
<1>4. RowOK' /\ (status \in Activating => status' \in Activating)
  <2>1. CASE SubmitMoves(c)
    <3>1. <<"DRAFT", InProgress[1]>> \in Life!Permitted
      BY DEF InProgress, Life!Permitted
    <3> QED
      BY <1>1, <2>1, <3>1, CrossKeepsRow DEF SubmitMoves
  <2>2. CASE SubmitReads(c) \/ SubmitUnmoved(c) \/ SubmitResolves(c)
    BY <1>1, <2>2, RowUnchanged DEF SubmitReads, SubmitUnmoved, SubmitResolves
  <2> QED
    BY <2>1, <2>2 DEF Submission
<1>5. RunOK'
  BY <1>1, <1>2, <1>4 DEF RunOK, Placed
<1>6. RestOK'
  BY <1>1, <1>2, <1>3, <1>4 DEF RestOK, AccountsOnlyOnceApproved, Activating
<1> QED
  BY <1>4, <1>5, <1>6 DEF OnboardingInv

\* So does a step that changes nothing.
LEMMA StutterInv ==
  ASSUME OnboardingInv, UNCHANGED vars
  PROVE  OnboardingInv'
<1>1. RowOK /\ RunOK /\ RestOK
  BY DEF OnboardingInv
<1>2. UNCHANGED <<status, events, details, customer, execution, stray, opened>>
  BY DEF vars
<1> QED
  BY <1>1, <1>2, RowUnchanged DEF OnboardingInv, RunOK, RestOK, Placed, AccountsOnlyOnceApproved

\* The inductive invariant: the execution's place in its steps agrees with the
\* status it believes in, one that believes accounts are due is right, and the
\* row's details come with its first event.
THEOREM OnboardingInvariant == Spec => []OnboardingInv
<1>1. Init => OnboardingInv
  BY InitInv
<1>2. OnboardingInv /\ [Next]_vars => OnboardingInv'
  <2> SUFFICES ASSUME OnboardingInv, [Next]_vars PROVE OnboardingInv'
    OBVIOUS
  <2>1. CASE Work
    BY <2>1, OwnStepsInv, MoveInv, ActivateInv DEF Work
  <2>2. CASE Start \/ Hear \/ LoseMove \/ LoseCall
    BY <2>2, OutsideInv
  <2>3. CASE StrayEnds
    BY <2>3, StrayInv
  <2>4. CASE \E c \in Customers : Submission(c)
    BY <2>4, SubmissionInv
  <2>5. CASE UNCHANGED vars
    BY <2>5, StutterInv
  <2> QED
    BY <2>1, <2>2, <2>3, <2>4, <2>5 DEF Next
<1> QED
  BY <1>1, <1>2, PTL DEF Spec

\* Every variable keeps its type.
THEOREM OnboardingTypes == Spec => []TypeOK
<1>1. OnboardingInv => TypeOK
  BY DEF OnboardingInv, RowOK, RunOK, RestOK, TypeOK
<1> QED
  BY <1>1, OnboardingInvariant, PTL

\* No execution asks for a move the lifecycle refuses, from whatever status it
\* was resumed.
THEOREM AsksOnlyPermittedMovesHolds == Spec => []AsksOnlyPermittedMoves
<1>1. OnboardingInv => AsksOnlyPermittedMoves
  BY MovesPermitted DEF OnboardingInv, RunOK, Placed, AsksOnlyPermittedMoves
<1> QED
  BY <1>1, OnboardingInvariant, PTL

\* Accounts are opened for approved requests only.
THEOREM AccountsOnlyOnceApprovedHolds == Spec => []AccountsOnlyOnceApproved
<1>1. OnboardingInv => AccountsOnlyOnceApproved
  BY DEF OnboardingInv, RestOK
<1> QED
  BY <1>1, OnboardingInvariant, PTL

\* The row holds the details of the customer whose submission left DRAFT.
THEOREM DetailsComeWithTheirMoveHolds == Spec => []DetailsComeWithTheirMove
<1>1. OnboardingInv => DetailsComeWithTheirMove
  BY DEF OnboardingInv, RowOK
<1> QED
  BY <1>1, OnboardingInvariant, PTL

-----------------------------------------------------------------------------
(* The refinement *)

\* A permitted compare-and-set is a step of the lifecycle.
LEMMA CrossImplements ==
  ASSUME RowOK, NEW from, NEW to, NEW who,
         <<from, to>> \in Life!Permitted, Cross(from, to, who)
  PROVE  Life!Cross
<1> DEFINE ev == [from |-> from, to |-> to, by |-> who]
           edge(e) == <<e.from, e.to>>
<1>1. status = from /\ status' = to /\ events' = Append(events, ev)
  BY DEF Cross, Matches
<1>2. ev.from = from /\ ev.to = to
  OBVIOUS
<1> HIDE DEF ev
<1>3. /\ Len(events) \in Nat /\ DOMAIN events = 1 .. Len(events)
      /\ DOMAIN events' = 1 .. Len(events) + 1
      /\ events'[Len(events) + 1] = ev
      /\ \A i \in 1 .. Len(events) : events'[i] = events[i]
  BY <1>1 DEF RowOK
<1>4. Edges' = [i \in 1 .. Len(events) + 1 |-> edge(events'[i])]
  BY <1>3 DEF Edges
<1>5. Edges = [i \in 1 .. Len(events) |-> edge(events[i])]
  BY <1>3 DEF Edges
<1>6. Edges' = Append(Edges, <<from, to>>)
  <2>1. Len(Edges) = Len(events)
    BY <1>3, <1>5
  <2>2. Append(Edges, <<from, to>>) =
          [i \in 1 .. Len(events) + 1 |->
             IF i = Len(events) + 1 THEN <<from, to>> ELSE Edges[i]]
    BY <1>3, <1>5, <2>1 
  <2>3. \A i \in 1 .. Len(events) + 1 :
          edge(events'[i]) = IF i = Len(events) + 1 THEN <<from, to>> ELSE Edges[i]
    BY <1>2, <1>3, <1>5
  <2> QED
    BY <1>4, <2>2, <2>3
<1> QED
  BY <1>1, <1>6 DEF Life!Cross

\* The workflow, its late attempts and the customers' submissions implement the
\* onboarding lifecycle.
THEOREM ImplementsLifecycleHolds == Spec => ImplementsLifecycle
<1>1. Init => Life!Init
  BY DEF Init, Life!Init, Edges
<1>2. OnboardingInv /\ [Next]_vars => [Life!Cross]_<<status, Edges>>
  <2> SUFFICES ASSUME OnboardingInv, [Next]_vars
               PROVE  Life!Cross \/ UNCHANGED <<status, Edges>>
    OBVIOUS
  <2>1. RowOK /\ RestOK
    BY DEF OnboardingInv
  <2>2. UNCHANGED <<status, events>> => UNCHANGED <<status, Edges>>
    BY DEF Edges
  <2>3. CASE Move
    BY <2>1, <2>2, <2>3, CrossImplements DEF Move
  <2>4. CASE StrayEnds
    <3>1. PICK m \in stray :
            \/ m \in Life!Permitted /\ Cross(m[1], m[2], Workflow)
            \/ UNCHANGED <<status, events>>
      BY <2>4 DEF StrayEnds
    <3>2. m = <<m[1], m[2]>>
      BY <2>1, <3>1 DEF RestOK
    <3> QED
      BY <2>1, <2>2, <3>1, <3>2, CrossImplements
  <2>5. CASE \E c \in Customers : Submission(c)
    <3>1. PICK c \in Customers : Submission(c)
      BY <2>5
    <3>2. <<"DRAFT", InProgress[1]>> \in Life!Permitted
      BY DEF InProgress, Life!Permitted
    <3>3. \/ Cross("DRAFT", InProgress[1], c)
          \/ UNCHANGED <<status, events>>
      BY <3>1 DEF Submission, SubmitReads, SubmitMoves, SubmitUnmoved, SubmitResolves
    <3> QED
      BY <2>1, <2>2, <3>2, <3>3, CrossImplements
  <2>6. CASE \/ Start \/ Hear \/ LoseMove \/ LoseCall \/ UNCHANGED vars
             \/ Load \/ Resolve \/ VerifyEntity \/ MapOrRate \/ CheckDocuments \/ Screen
             \/ RequestApproval \/ Activate \/ WakeOnAnswer \/ WakeOnDocument \/ Abandon
    <3>1. UNCHANGED <<status, events>>
      BY <2>6 DEF Start, Hear, LoseMove, LoseCall, vars, Load, Resolve, VerifyEntity,
           MapOrRate, CheckDocuments, Screen, RequestApproval, Activate, WakeOnAnswer,
           WakeOnDocument, Abandon
    <3> QED
      BY <2>2, <3>1
  <2> QED
    BY <2>3, <2>4, <2>5, <2>6 DEF Next, Work
<1> QED
  BY <1>1, <1>2, OnboardingInvariant, PTL DEF Spec, ImplementsLifecycle, Life!Spec
=============================================================================
