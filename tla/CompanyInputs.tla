---------------------------- MODULE CompanyInputs ----------------------------
(***************************************************************************)
(* What the background check relies on (docs/contracts/background-check.md *)
(* section 12.1): a company's inputs change one at a time, always in the   *)
(* current cycle, a reviewed result never changes, and a decision pins     *)
(* exactly what stands when it is made, proposed on the same fingerprint.  *)
(* BackgroundCheck's RecordInput, FileDocument, StartCycle and Approve take*)
(* these steps.                                                            *)
(***************************************************************************)
EXTENDS Naturals

CONSTANT Results    \* verification_result rows

VARIABLES
    results,    \* each row: its outcome, its review chain and its cycle
    docs,       \* how many company documents are filed
    cycle,      \* the highest check_cycle.number, 0 before the first row
    decision    \* the last approved decision, if any: what it pinned, what was proposed

data == <<results, docs, cycle, decision>>

\* What a provider says: the verdict, and the details beside it (risk_level,
\* normalized_result, valid_until), of which risk stands for all.
Statuses == {"PENDING", "PASSED", "FAILED"}
Risks == {"LOW", "HIGH"}
Answers == [status : Statuses, risk : Risks]

NoResult == [status |-> "NONE", risk |-> "NONE", reviews |-> 0, cycle |-> 0]
Result(answer, inCycle) ==
    [status |-> answer.status, risk |-> answer.risk, reviews |-> 0, cycle |-> inCycle]
Recorded(r) == results[r].status # "NONE"

\* company_inputs and the company's documents: the current cycle's rows only.
Snapshot ==
    [cycle   |-> cycle,
     docs    |-> docs,
     results |-> [r \in Results |-> IF results[r].cycle = cycle THEN results[r] ELSE NoResult]]

\* inputs_fingerprint: each result's verdict and review head, not its details.
Fingerprint(snapshot) ==
    <<snapshot.cycle, snapshot.docs,
      [r \in Results |-> <<snapshot.results[r].status, snapshot.results[r].reviews>>]>>

\* A company's first input makes cycle 1.
Stamp == IF cycle = 0 THEN 1 ELSE cycle

\* Nothing recorded yet, or a first result of any outcome.
Init ==
    /\ docs = 0
    /\ decision = {}
    /\ \/ cycle = 0 /\ results = [r \in Results |-> NoResult]
       \/ /\ cycle = 1
          /\ \E r \in Results, a \in Answers :
                results = [q \in Results |-> IF q = r THEN Result(a, 1) ELSE NoResult]

-----------------------------------------------------------------------------
Record(r, answer) ==
    /\ ~Recorded(r)
    /\ results' = [results EXCEPT ![r] = Result(answer, Stamp)]
    /\ cycle' = Stamp
    /\ UNCHANGED <<docs, decision>>

Settle(r, answer) ==
    /\ Recorded(r)
    /\ results[r].reviews = 0
    /\ results' = [results EXCEPT ![r] = [@ EXCEPT !.status = answer.status, !.risk = answer.risk]]
    /\ UNCHANGED <<docs, cycle, decision>>

Review(r) ==
    /\ Recorded(r)
    /\ results[r].status # "PENDING"
    /\ results' = [results EXCEPT ![r] = [results[r] EXCEPT !.reviews = @ + 1]]
    /\ UNCHANGED <<docs, cycle, decision>>

File ==
    /\ docs' = docs + 1
    /\ UNCHANGED <<results, cycle, decision>>

StartCycle ==
    /\ \E r \in Results : Recorded(r) /\ results[r].cycle = cycle
    /\ cycle' = cycle + 1
    /\ UNCHANGED <<results, docs, decision>>

Decide ==
    /\ decision' # {}
    /\ \A d \in decision' :
          d.pinned = Snapshot /\ Fingerprint(d.proposed) = Fingerprint(Snapshot)
    /\ UNCHANGED <<results, docs, cycle>>

Next ==
    \/ \E r \in Results, a \in Answers : Record(r, a) \/ Settle(r, a)
    \/ \E r \in Results : Review(r)
    \/ File
    \/ StartCycle
    \/ Decide

Spec == Init /\ [][Next]_data
=============================================================================
