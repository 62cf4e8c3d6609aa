----------------------------- MODULE Onboarding -----------------------------
(***************************************************************************)
(* One onboarding request: its row and its events, the workflow execution  *)
(* that drives it (OnboardingWorkflow), the attempts of its transition     *)
(* activity that outlive their timeout, and the customers who submit its   *)
(* entity details at the same time (OnboardingRequestService).             *)
(*                                                                         *)
(* A status is written by one statement, UPDATE ... WHERE status =         *)
(* expected, committed with its event.  An execution that fails is started *)
(* again and goes on from the status it finds; what it had been told in    *)
(* signals goes with it.                                                   *)
(***************************************************************************)
EXTENDS Integers, Sequences

CONSTANTS Customers,    \* requests to submit_entity_details
          Attempts,     \* retry_max_attempts
          MaxFaults, MaxStarts, MaxSignals   \* bounds

ASSUME AttemptsAssumption == Attempts \in Nat \ {0}
ASSUME CustomersAssumption == {"workflow", "no one"} \cap Customers = {}

VARIABLES status,     \* onboarding_request.status
          events,     \* its status_changed events, oldest first
          details,    \* whose entity details the row holds
          customer,   \* customer -> how far its submission is
          execution,  \* the running execution of the workflow
          stray,      \* timed-out attempts that still run: edges
          opened,     \* create_accounts has been called
          budget      \* faults, starts and signals so far

vars == <<status, events, details, customer, execution, stray, opened, budget>>

Edges == [i \in DOMAIN events |-> <<events[i].from, events[i].to>>]

Life == INSTANCE OnboardingLife WITH trail <- Edges

Workflow == "workflow"
NoOne == "no one"
KybOutcomes == {"Verified", "Rejected", "Review", "Pending"}
Decisions == {"Approved", "Rejected", "Undecided"}
Screenings == {"HardBlock", "Pass"}

\* The status in which each step of `run` does its work.
InProgress ==
  <<"ENTITY_VERIFICATION_IN_PROGRESS", "UBO_MAPPING_IN_PROGRESS",
    "DOCUMENT_COLLECTION_IN_PROGRESS", "SCREENING_IN_PROGRESS",
    "RISK_RATING_IN_PROGRESS", "PENDING_COMPLIANCE_APPROVAL",
    "ACCOUNT_CREATION_IN_PROGRESS">>

\* The status that ends each step.
Completed ==
  <<"ENTITY_VERIFIED", "UBO_MAPPING_COMPLETE", "DOCUMENT_COLLECTION_COMPLETE",
    "SCREENING_COMPLETE", "RISK_RATED", "APPROVED", "ACTIVE">>

Steps == 1 .. 7

-----------------------------------------------------------------------------
(* The transition: one conditional UPDATE and its event *)

\* Mutant: the update lets any row through.
AnyRow(from) == TRUE

Matches(from) == status = from

Cross(from, to, who) ==
  /\ Matches(from)
  /\ status' = to
  /\ events' = Append(events, [from |-> from, to |-> to, by |-> who])

\* Mutant: an update that matched nothing is taken for a repeat.
TakenAsRepeat(from, to) == status # from

\* _resolve_unmoved: the request is where the caller wanted it, by the move
\* the caller asked for.
AlreadyApplied(from, to) ==
  /\ status = to
  /\ \E i \in DOMAIN events : events[i].from = from /\ events[i].to = to

-----------------------------------------------------------------------------
(* An execution of the workflow *)

Off == [doing |-> "off", step |-> 1, at |-> "DRAFT", to |-> "DRAFT",
        answers |-> << >>, decisions |-> << >>, docs |-> FALSE, tries |-> 0]

Moving(e, to)  == [e EXCEPT !.doing = "move", !.to = to, !.tries = 0]
Waiting(e)     == [e EXCEPT !.doing = "wait", !.to = e.at, !.tries = 0]
Calling(e)     == [e EXCEPT !.doing = "call", !.to = e.at, !.tries = 0]

\* The top of the document loop takes note of what has arrived.
Checking(e) == [Calling(e) EXCEPT !.docs = FALSE]

\* A step begins: _enter moves into its in-progress status unless the request
\* is there; verification is entered from DRAFT only.
Begin(e, k) ==
  LET b == [e EXCEPT !.step = k] IN
  IF e.at = InProgress[k] \/ (k = 1 /\ e.at # "DRAFT")
  THEN IF k = 3 THEN Checking(b) ELSE Calling(b)
  ELSE Moving(b, InProgress[k])

\* Mutant: a completed status starts at its own step.
ResumeAtOwnStep(s) ==
  IF s \in {"DRAFT", "UNDER_REVIEW"} THEN 1
  ELSE CHOOSE k \in Steps : s = InProgress[k] \/ s = Completed[k]

\* RESUME_STEP_BY_STATUS: a completed status starts at the step after it.
Resume(s) ==
  IF s \in {"DRAFT", "UNDER_REVIEW"} THEN 1
  ELSE CHOOSE k \in Steps : s = InProgress[k] \/ (k > 1 /\ s = Completed[k - 1])

\* What an execution does once its request is at e.to.
Arrived(e) ==
  LET a == [e EXCEPT !.at = e.to] IN
  IF a.at \in {"REJECTED", "ABANDONED"} THEN Off
  ELSE IF a.at = "UNDER_REVIEW" THEN Waiting(a)
  ELSE IF a.at = "ACTIVE" THEN Calling(a)
  ELSE IF a.at = Completed[e.step] THEN Begin(a, e.step + 1)
  ELSE Begin(a, e.step)

\* The verification outcome, from the submission or from a later answer.
Judge(e, outcome) ==
  IF outcome = "Verified" THEN Moving(e, "ENTITY_VERIFIED")
  ELSE IF outcome = "Rejected" THEN Moving(e, "REJECTED")
  ELSE IF outcome = "Review" /\ e.at # "UNDER_REVIEW" THEN Moving(e, "UNDER_REVIEW")
  ELSE Waiting(e)

Decide(e, decision) ==
  IF decision = "Approved" THEN Moving(e, "APPROVED")
  ELSE IF decision = "Rejected" THEN Moving(e, "REJECTED")
  ELSE Waiting(e)

Spend(what) == budget' = [budget EXCEPT ![what] = @ + 1]

\* start_onboarding_workflow: one execution at a time under the request's id.
Start ==
  /\ execution.doing = "off"
  /\ budget.starts < MaxStarts
  /\ Spend("starts")
  /\ execution' = [Off EXCEPT !.doing = "load"]
  /\ UNCHANGED <<status, events, details, customer, stray, opened>>

\* load_onboarding_progress
Load ==
  /\ execution.doing = "load"
  /\ execution' = IF status \in Life!Terminal THEN Off
                  ELSE Begin([execution EXCEPT !.at = status], Resume(status))
  /\ UNCHANGED <<status, events, details, customer, stray, opened, budget>>

\* An attempt of transition_onboarding_request that answers.
Move ==
  /\ execution.doing = "move"
  /\ IF <<execution.at, execution.to>> \notin Life!Permitted
     THEN execution' = Off /\ UNCHANGED <<status, events>>
     ELSE \/ /\ Cross(execution.at, execution.to, Workflow)
             /\ execution' = Arrived(execution)
          \/ /\ ~Matches(execution.at)
             /\ execution' = [execution EXCEPT !.doing = "resolve"]
             /\ UNCHANGED <<status, events>>
  /\ UNCHANGED <<details, customer, stray, opened, budget>>

\* Its update matched nothing: a repeat goes on, a conflict ends the execution.
Resolve ==
  /\ execution.doing = "resolve"
  /\ execution' = IF AlreadyApplied(execution.at, execution.to)
                  THEN Arrived(execution) ELSE Off
  /\ UNCHANGED <<status, events, details, customer, stray, opened, budget>>

(* The dependencies answer as they like, and a repeated call may answer
   otherwise: their contract says it does not, and nothing here needs it. *)

Called(k) == execution.doing = "call" /\ execution.step = k

VerifyEntity ==
  /\ Called(1)
  /\ \E o \in KybOutcomes : execution' = Judge(execution, o)
  /\ UNCHANGED <<status, events, details, customer, stray, opened, budget>>

\* map_ubo_owners and rate_risk: whatever the answer, the step completes.
MapOrRate ==
  /\ Called(2) \/ Called(5)
  /\ execution' = Moving(execution, Completed[execution.step])
  /\ UNCHANGED <<status, events, details, customer, stray, opened, budget>>

CheckDocuments ==
  /\ Called(3)
  /\ \/ execution' = Moving(execution, Completed[3])
     \/ execution' = IF execution.docs THEN Checking(execution) ELSE Waiting(execution)
  /\ UNCHANGED <<status, events, details, customer, stray, opened, budget>>

Screen ==
  /\ Called(4)
  /\ \E r \in Screenings :
       execution' = Moving(execution, IF r = "HardBlock" THEN "REJECTED" ELSE Completed[4])
  /\ UNCHANGED <<status, events, details, customer, stray, opened, budget>>

RequestApproval ==
  /\ Called(6)
  /\ \E d \in Decisions : execution' = Decide(execution, d)
  /\ UNCHANGED <<status, events, details, customer, stray, opened, budget>>

\* create_accounts and the first user, then ACTIVE; then notify_completion.
Activate ==
  /\ Called(7)
  /\ opened' = TRUE
  /\ execution' = IF execution.at = "ACTIVE" THEN Off ELSE Moving(execution, Completed[7])
  /\ UNCHANGED <<status, events, details, customer, stray, budget>>

\* An answer ends a wait; a document, or nothing for too long, ends the other.
WakeOnAnswer ==
  /\ execution.doing = "wait"
  /\ \/ /\ execution.step = 1 /\ execution.answers # << >>
        /\ execution' = Judge([execution EXCEPT !.answers = Tail(@)], Head(execution.answers))
     \/ /\ execution.step = 6 /\ execution.decisions # << >>
        /\ execution' = Decide([execution EXCEPT !.decisions = Tail(@)],
                               Head(execution.decisions))
  /\ UNCHANGED <<status, events, details, customer, stray, opened, budget>>

WakeOnDocument ==
  /\ execution.doing = "wait" /\ execution.step = 3 /\ execution.docs
  /\ execution' = Checking(execution)
  /\ UNCHANGED <<status, events, details, customer, stray, opened, budget>>

\* Mutant: only a document starts the timer.
AbandonAfterDocument ==
  /\ execution.doing = "wait" /\ execution.step = 3 /\ execution.docs
  /\ execution' = Moving(execution, "ABANDONED")
  /\ UNCHANGED <<status, events, details, customer, stray, opened, budget>>

\* The customer has been silent for too long.
Abandon ==
  /\ execution.doing = "wait" /\ execution.step = 3 /\ ~execution.docs
  /\ execution' = Moving(execution, "ABANDONED")
  /\ UNCHANGED <<status, events, details, customer, stray, opened, budget>>

-----------------------------------------------------------------------------
(* Signals: kept by the execution that runs, lost when none does *)

\* Verification answers are kept until it is resolved.
HearKyb(o) ==
  /\ execution.at \in {"DRAFT", "ENTITY_VERIFICATION_IN_PROGRESS", "UNDER_REVIEW"}
  /\ execution.to \notin {"ENTITY_VERIFIED", "REJECTED"}
  /\ o # "Pending"
  /\ execution' = [execution EXCEPT !.answers = Append(@, o)]

HearDecision(d) ==
  /\ execution.at \notin {"APPROVED", "ACCOUNT_CREATION_IN_PROGRESS"} \cup Life!Terminal
  /\ ~(execution.step = 6 /\ execution.to \in {"APPROVED", "REJECTED"})
  /\ execution' = [execution EXCEPT !.decisions = Append(@, d)]

HearDocument ==
  /\ execution.at \notin Life!Terminal
  /\ execution' = [execution EXCEPT !.docs = TRUE]

Hear ==
  /\ execution.doing # "off"
  /\ budget.signals < MaxSignals
  /\ Spend("signals")
  /\ \/ \E o \in KybOutcomes : HearKyb(o)
     \/ \E d \in {"Approved", "Rejected"} : HearDecision(d)
     \/ HearDocument
  /\ UNCHANGED <<status, events, details, customer, stray, opened>>

-----------------------------------------------------------------------------
(* Faults: an attempt's answer does not come *)

\* The next attempt, or the end of the execution when there is none left.
Retry(e) ==
  IF e.tries + 1 < Attempts
  THEN [e EXCEPT !.tries = @ + 1, !.doing = IF @ = "resolve" THEN "move" ELSE @]
  ELSE Off

\* A transition attempt times out; its transaction may yet commit.
LoseMove ==
  /\ execution.doing \in {"move", "resolve"}
  /\ budget.faults < MaxFaults
  /\ Spend("faults")
  /\ stray' = IF execution.doing = "move"
              THEN stray \cup {<<execution.at, execution.to>>} ELSE stray
  /\ execution' = Retry(execution)
  /\ UNCHANGED <<status, events, details, customer, opened>>

\* A read or a dependency call fails; what it asked for may have been done.
LoseCall ==
  /\ execution.doing \in {"load", "call"}
  /\ budget.faults < MaxFaults
  /\ Spend("faults")
  /\ opened' = (opened \/ Called(7))
  /\ execution' = Retry(execution)
  /\ UNCHANGED <<status, events, details, customer, stray>>

\* A timed-out attempt ends: it moves the row, or finds that it cannot.
StrayEnds ==
  /\ \E m \in stray :
       /\ stray' = stray \ {m}
       /\ \/ m \in Life!Permitted /\ Cross(m[1], m[2], Workflow)
          \/ (m \notin Life!Permitted \/ ~Matches(m[1])) /\ UNCHANGED <<status, events>>
  /\ UNCHANGED <<details, customer, execution, opened, budget>>

-----------------------------------------------------------------------------
(* submit_entity_details *)

\* Only a request in DRAFT takes details.
SubmitReads(c) ==
  /\ customer[c] = "idle"
  /\ status = "DRAFT"
  /\ customer' = [customer EXCEPT ![c] = "read"]
  /\ UNCHANGED <<status, events, details, execution, stray, opened, budget>>

\* The details are flushed, the row is moved and both are committed.
SubmitMoves(c) ==
  /\ customer[c] = "read"
  /\ Cross("DRAFT", InProgress[1], c)
  /\ details' = c
  /\ customer' = [customer EXCEPT ![c] = "accepted"]
  /\ UNCHANGED <<execution, stray, opened, budget>>

\* Mutant: the details are committed apart from the move.
DetailsKept(c) ==
  /\ customer[c] = "read"
  /\ ~Matches("DRAFT")
  /\ details' = c
  /\ customer' = [customer EXCEPT ![c] = "resolve"]
  /\ UNCHANGED <<status, events, execution, stray, opened, budget>>

\* The row was not moved: the details are rolled back with it.
SubmitUnmoved(c) ==
  /\ customer[c] = "read"
  /\ ~Matches("DRAFT")
  /\ customer' = [customer EXCEPT ![c] = "resolve"]
  /\ UNCHANGED <<status, events, details, execution, stray, opened, budget>>

SubmitResolves(c) ==
  /\ customer[c] = "resolve"
  /\ customer' = [customer EXCEPT
       ![c] = IF AlreadyApplied("DRAFT", InProgress[1]) THEN "accepted" ELSE "refused"]
  /\ UNCHANGED <<status, events, details, execution, stray, opened, budget>>

-----------------------------------------------------------------------------
Init ==
  /\ status = "DRAFT"
  /\ events = << >>
  /\ details = NoOne
  /\ customer = [c \in Customers |-> "idle"]
  /\ execution = Off
  /\ stray = {}
  /\ opened = FALSE
  /\ budget = [faults |-> 0, starts |-> 0, signals |-> 0]

\* What the running execution does of its own.
Work ==
  \/ Load \/ Move \/ Resolve
  \/ VerifyEntity \/ MapOrRate \/ CheckDocuments \/ Screen \/ RequestApproval \/ Activate
  \/ WakeOnAnswer \/ WakeOnDocument \/ Abandon

Submission(c) == SubmitReads(c) \/ SubmitMoves(c) \/ SubmitUnmoved(c) \/ SubmitResolves(c)

Next ==
  \/ Start \/ Work \/ Hear
  \/ LoseMove \/ LoseCall \/ StrayEnds
  \/ \E c \in Customers : Submission(c)

\* Temporal keeps a running execution's next task until a worker takes it, and
\* its timers fire.
Spec == Init /\ [][Next]_vars /\ WF_vars(Work)

-----------------------------------------------------------------------------
(* Properties *)

Progress == {"off", "load", "move", "resolve", "call", "wait"}

Executions ==
  [doing : Progress, step : Steps, at : Life!Statuses, to : Life!Statuses,
   answers : Seq(KybOutcomes), decisions : Seq(Decisions), docs : BOOLEAN, tries : Nat]

\* The row, its events, the submissions and the execution are of their types.
TypeOK ==
  /\ status \in Life!Statuses
  /\ events \in Seq([from : Life!Statuses, to : Life!Statuses,
                    by : Customers \cup {Workflow}])
  /\ details \in Customers \cup {NoOne}
  /\ customer \in [Customers -> {"idle", "read", "resolve", "accepted", "refused"}]
  /\ execution \in Executions
  /\ stray \subseteq Life!Statuses \X Life!Statuses
  /\ opened \in BOOLEAN

\* Whoever moves the request, and however often an attempt is repeated or comes
\* late, the row walks the permitted table and each edge leaves one event.
ImplementsLifecycle == Life!Spec

\* No execution asks for a move the table refuses: such a refusal is not
\* retried, and every later execution would meet it again.
AsksOnlyPermittedMoves ==
  execution.doing \in {"move", "resolve"} => <<execution.at, execution.to>> \in Life!Permitted

\* Accounts are only opened for a request that was approved: no execution acts
\* on a move that a late attempt of another one has overtaken.
AccountsOnlyOnceApproved ==
  opened => status \in {"ACCOUNT_CREATION_IN_PROGRESS", "ACTIVE"}

\* The row holds a customer's details exactly when that customer's submission
\* is the move that left DRAFT.
DetailsComeWithTheirMove ==
  \A c \in Customers :
    details = c <=> \E i \in DOMAIN events : events[i].by = c

\* An execution ends, or waits on the provider, a reviewer or compliance: it
\* never waits for ever on a customer, nor checks documents without end.
AwaitsAnswer == execution.doing = "wait" /\ execution.step \in {1, 6}

ExecutionsSettle == execution.doing # "off" ~> (execution.doing = "off" \/ AwaitsAnswer)
=============================================================================
