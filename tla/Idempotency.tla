---------------------------- MODULE Idempotency ----------------------------
(***************************************************************************)
(* One idempotency key on one gated route: the middleware that registers   *)
(* it, runs the operation and stores its answer (platform/middleware), the *)
(* registry rows behind it (platform/idempotency/services.py), the expiry  *)
(* sweep and the nightly archival.                                         *)
(*                                                                         *)
(* rows holds every record ever written for the (key, scope) pair, oldest  *)
(* first: expired and archived records stay as history, and the partial    *)
(* unique index allows one live record in the hot table.                   *)
(***************************************************************************)
EXTENDS Naturals, Sequences, FiniteSets

CONSTANTS
    Requests,       \* the requests that carry the key
    Faulty,         \* the requests whose process may die or whose completion may fail
    Attempts,       \* _REGISTRATION_ATTEMPTS
    Nothing         \* no response, or no request

ASSUME KeyAssumption ==
    /\ Faulty \subseteq Requests
    /\ Attempts \in Nat \ {0}
    /\ Nothing \notin Requests

VARIABLES
    rows,     \* the records of the pair, in the order they were inserted
    pc,       \* where each request is
    tries,    \* the INSERTs its registration has made
    at,       \* the record it registered, or the last one when it first asked
    outcome,  \* what its handler produced, to be stored
    said      \* what its client was answered

vars == <<rows, pc, tries, at, outcome, said>>

Terminal == {"completed", "failed"}

\* IdempotencyStatus; a payload is named after the request that produced it.
Outcome == [status : Terminal, response : Requests \union {Nothing}]

\* age: inside its window, past expires_at, or past the archival cutoff.
Row == [by : Requests, status : {"active", "expired"} \union Terminal,
        response : Requests \union {Nothing},
        age : {"fresh", "due", "old"}, table : {"hot", "archive"}]

\* An answer, and the request whose response it carries when it is a replay.
Answer == {"nothing", "own", "in progress", "already used", "race", "replay"}
              \X (Requests \union {Nothing})

NoOutcome == [status |-> "failed", response |-> Nothing]

Init ==
    /\ rows = <<>>
    /\ pc = [r \in Requests |-> "start"]
    /\ tries = [r \in Requests |-> 0]
    /\ at = [r \in Requests |-> 0]
    /\ outcome = [r \in Requests |-> NoOutcome]
    /\ said = [r \in Requests |-> <<"nothing", Nothing>>]

-----------------------------------------------------------------------------
(* The registry's statements.                                              *)

\* LIVE_RECORD_PREDICATE: a record of the hot table that is not expired.
IsLive(row) == row.table = "hot" /\ row.status # "expired"

Live == {i \in DOMAIN rows : IsLive(rows[i])}

Goto(r, place) == pc' = [pc EXCEPT ![r] = place]
Say(r, answer) == said' = [said EXCEPT ![r] = answer]

\* INSERT ... ON CONFLICT DO NOTHING, and the commit that follows it. A
\* conflict is decided by the record the statement met; a request that finds
\* none owns the key and its handler starts.
Insert(r) ==
    /\ pc[r] \in {"start", "again"}
    /\ tries' = [tries EXCEPT ![r] = tries[r] + 1]
    /\ \/ /\ Live = {}
          /\ rows' = Append(rows, [by |-> r, status |-> "active", response |-> Nothing,
                                   age |-> "fresh", table |-> "hot"])
          /\ at' = [at EXCEPT ![r] = Len(rows) + 1]
          /\ Goto(r, "running")
       \/ /\ Live # {}
          /\ at' = IF pc[r] = "start" THEN [at EXCEPT ![r] = Len(rows)] ELSE at
          /\ Goto(r, "conflict")
          /\ UNCHANGED rows
    /\ UNCHANGED <<outcome, said>>

\* What a duplicate is told of the live record it locked.
Told(row) ==
    IF row.status \notin Terminal THEN <<"in progress", Nothing>>
    ELSE IF row.response = Nothing THEN <<"already used", Nothing>>
    ELSE <<"replay", row.response>>

\* Mutant: the INSERT is made once.
OneAttempt(r) ==
    /\ pc[r] = "conflict"
    /\ \/ \E i \in Live : Say(r, Told(rows[i])) /\ Goto(r, "done")
       \/ Live = {} /\ Say(r, <<"race", Nothing>>) /\ Goto(r, "done")
    /\ UNCHANGED <<rows, tries, at, outcome>>

\* SELECT ... FOR UPDATE of the live record. When the record the INSERT met
\* has been released meanwhile the INSERT is made again, Attempts times in all.
Select(r) ==
    /\ pc[r] = "conflict"
    /\ \/ \E i \in Live : Say(r, Told(rows[i])) /\ Goto(r, "done")
       \/ /\ Live = {}
          /\ tries[r] < Attempts
          /\ Goto(r, "again")
          /\ UNCHANGED said
       \/ /\ Live = {}
          /\ tries[r] >= Attempts
          /\ Say(r, <<"race", Nothing>>)
          /\ Goto(r, "done")
    /\ UNCHANGED <<rows, tries, at, outcome>>

-----------------------------------------------------------------------------
(* The owner: call_next, then _complete.                                   *)

\* The handler ends. It raises, or answers with a response that fits the
\* cache (JSON, small enough) or one that does not.
Handle(r) ==
    /\ pc[r] = "running"
    /\ \E status \in Terminal, kept \in {r, Nothing} :
           outcome' = [outcome EXCEPT ![r] = [status |-> status, response |-> kept]]
    /\ Goto(r, "completing")
    /\ UNCHANGED <<rows, tries, at, said>>

\* Mutant: whatever record of the pair.
AnyOfThePair(row) == row.table = "hot"

\* The records complete_key's UPDATE writes.
IsCompleted(row) == row.table = "hot" /\ row.status = "active"

\* complete_key in a transaction of its own, then the client is sent what the
\* handler produced, an error included.
Complete(r) ==
    /\ pc[r] = "completing"
    /\ rows' = [i \in DOMAIN rows |->
                  IF IsCompleted(rows[i])
                  THEN [rows[i] EXCEPT !.status = outcome[r].status,
                                       !.response = outcome[r].response]
                  ELSE rows[i]]
    /\ Say(r, <<"own", Nothing>>)
    /\ Goto(r, "done")
    /\ UNCHANGED <<tries, at, outcome>>

\* The store cannot be written: _complete logs it and the response is sent
\* all the same, the record left ACTIVE.
CompleteFails(r) ==
    /\ pc[r] = "completing"
    /\ r \in Faulty
    /\ Say(r, <<"own", Nothing>>)
    /\ Goto(r, "done")
    /\ UNCHANGED <<rows, tries, at, outcome>>

\* The process dies, or the request is cancelled: no _complete is made.
Die(r) ==
    /\ r \in Faulty
    /\ pc[r] \in {"running", "completing"}
    /\ Goto(r, "dead")
    /\ UNCHANGED <<rows, tries, at, outcome, said>>

-----------------------------------------------------------------------------
(* Time, the sweep and the archival.                                       *)

Older(age) == IF age = "fresh" THEN "due" ELSE "old"

\* A registration takes far less than the window: no record written after it
\* began passes its expiry before it has ended.
Outlives(i) == \A r \in Requests : pc[r] \in {"conflict", "again"} => i <= at[r]

Advance(i) ==
    /\ rows[i].age # "old"
    /\ rows[i].age = "fresh" => Outlives(i)
    /\ rows' = [rows EXCEPT ![i].age = Older(rows[i].age)]
    /\ UNCHANGED <<pc, tries, at, outcome, said>>

\* Mutant: the sweep takes an operation under way.
SweepsActive(row) == row.table = "hot" /\ row.status # "expired" /\ row.age # "fresh"

\* Mutant: before the window closes.
SweepsEarly(row) == row.table = "hot" /\ row.status \in Terminal

\* Mutant: not those that failed.
SweepsCompleted(row) == row.table = "hot" /\ row.status = "completed" /\ row.age # "fresh"

\* _eligible_ids_stmt: customer keys whose operation has ended and whose
\* window has closed.
IsExpirable(row) == row.table = "hot" /\ row.status \in Terminal /\ row.age # "fresh"

\* run_expiry_sweep, one transaction.
Sweep ==
    /\ \E i \in DOMAIN rows : IsExpirable(rows[i])
    /\ rows' = [i \in DOMAIN rows |->
                  IF IsExpirable(rows[i]) THEN [rows[i] EXCEPT !.status = "expired"]
                  ELSE rows[i]]
    /\ UNCHANGED <<pc, tries, at, outcome, said>>

IsArchivable(row) ==
    row.table = "hot" /\ row.status \in Terminal \union {"expired"} /\ row.age = "old"

\* _do_archival: a batch of eligible records is copied to the archive and
\* deleted from the hot table in one transaction.
Archive ==
    /\ \E batch \in SUBSET {i \in DOMAIN rows : IsArchivable(rows[i])} :
           /\ batch # {}
           /\ rows' = [i \in DOMAIN rows |->
                         IF i \in batch THEN [rows[i] EXCEPT !.table = "archive"]
                         ELSE rows[i]]
    /\ UNCHANGED <<pc, tries, at, outcome, said>>

-----------------------------------------------------------------------------
Next ==
    \/ \E r \in Requests : Insert(r) \/ Select(r) \/ Handle(r) \/ Complete(r)
    \/ \E r \in Requests : CompleteFails(r) \/ Die(r)
    \/ \E i \in DOMAIN rows : Advance(i)
    \/ Sweep
    \/ Archive

Spec == Init /\ [][Next]_vars

\* A request goes on until it ends, time passes, and the scheduler keeps
\* firing the sweep (main.py registers it at the configured interval). The
\* archival needs no fairness: it may be switched off.
FairSpec ==
    /\ Spec
    /\ \A r \in Requests : WF_vars(Insert(r)) /\ WF_vars(Select(r))
                               /\ WF_vars(Handle(r)) /\ WF_vars(Complete(r))
    /\ \A i \in 1..Cardinality(Requests) : WF_vars(i \in DOMAIN rows /\ Advance(i))
    /\ WF_vars(Sweep)

-----------------------------------------------------------------------------
(***************************************************************************)
(* Properties                                                              *)
(***************************************************************************)
TypeOK ==
    /\ rows \in Seq(Row)
    /\ pc \in [Requests -> {"start", "again", "conflict", "running", "completing", "dead", "done"}]
    /\ tries \in [Requests -> 0..Attempts]
    /\ at \in [Requests -> 0..Len(rows)]
    /\ outcome \in [Requests -> Outcome]
    /\ said \in [Requests -> Answer]

\* A key is never handed to a second request inside the window of the first
\* (KEY_TTL): only the latest record may be inside its window, whatever the
\* outcome of the operation and however the sweep and the archival fall.
OneRunPerWindow == \A i \in DOMAIN rows : rows[i].age = "fresh" => i = Len(rows)

\* A registration meeting the sweep between its INSERT and its SELECT is
\* decided by the second attempt: RegistrationRaceError, which _register does
\* not catch, never reaches a client (_REGISTRATION_ATTEMPTS).
RegistrationDecides == \A r \in Requests : said[r][1] # "race"

\* complete_key names the pair, not the record: it never writes a response
\* over the record of an earlier owner, so every record keeps the answer of
\* the request that registered it, and a replay is always of a request that
\* ended with that very answer.
RecordsKeepTheirResponse ==
    /\ \A i \in DOMAIN rows : rows[i].response \in {rows[i].by, Nothing}
    /\ \A r, q \in Requests : said[r] = <<"replay", q>> => outcome[q].response = q

\* The live record seen as the claim of KeyClaim: no operation starts while
\* another request owns the key, and only a settled key is released.
Owner == IF Live = {} THEN Nothing ELSE rows[CHOOSE i \in Live : TRUE].by
Settled == \E i \in Live : rows[i].status \in Terminal
Kept == IF Live = {} THEN Nothing ELSE rows[CHOOSE i \in Live : TRUE].response

Claim == INSTANCE KeyClaim WITH owner <- Owner, settled <- Settled, response <- Kept

\* The middleware, the sweep and the archival implement KeyClaim.
ImplementsKeyClaim == Claim!Spec

\* A key whose operation ended is free again in the end, whether it
\* succeeded or failed: the sweep reaches its record.
SettledKeysAreReleased ==
    \A i \in 1..Cardinality(Requests) :
        (i \in DOMAIN rows /\ rows[i].status \in Terminal) ~> ~(i \in Live)
=============================================================================
