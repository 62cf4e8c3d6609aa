----------------------------- MODULE CompanyRow -----------------------------
(***************************************************************************)
(* One company's exporter_profile row, the accounts of the staff who act   *)
(* on it, and the clock: what BackgroundCheck and Qualification share.     *)
(*                                                                         *)
(* Every service operation takes the row FOR UPDATE before it reads and    *)
(* commits once, and every writer of a compliance input takes it FOR       *)
(* SHARE, so an operation is one atomic step here; InputLock models the    *)
(* lock itself.                                                            *)
(***************************************************************************)
EXTENDS Integers

CONSTANTS
    Staff,            \* accounts that may hold OPERATIONS or COMPLIANCE
    NoUser,           \* an empty reviewer or relationship-manager column
    ReviewLeads,      \* holders of compliance:assign
    SeniorCheckers,   \* holders of compliance:approve_high_risk
    SalesLeads,       \* holders of exporters:assign_rm
    HiredAs,          \* each account's role to begin with
    Edited,           \* the accounts an administrator may edit (a bound)
    Validity,         \* how long a Clear stays current, in clock ticks
    Horizon           \* the last clock value (a bound)

ASSUME StaffAssumption ==
    /\ NoUser \notin Staff
    /\ ReviewLeads \subseteq Staff
    /\ SeniorCheckers \subseteq Staff
    /\ SalesLeads \subseteq Staff
    /\ Edited \subseteq Staff
    /\ HiredAs \in [Staff -> {"OPERATIONS", "COMPLIANCE"}]

ASSUME ClockAssumption == Validity \in Nat \ {0} /\ Horizon \in Nat

VARIABLES
    role,       \* user.role, by account
    active,     \* user.is_active, by account
    pipeline,   \* pipeline_status
    journey,    \* journey: LEAD -> PROSPECT -> CUSTOMER
    rm,         \* relationship_manager_user_id
    gauge,      \* background_check
    expires,    \* background_check_expires_at
    reviewer,   \* background_check_reviewer_id
    now         \* the server's clock

staffVars == <<role, active>>
rowVars   == <<pipeline, journey, rm, gauge, expires, reviewer>>

Roles    == {"OPERATIONS", "COMPLIANCE"}
Journeys == {"LEAD", "PROSPECT", "CUSTOMER"}
Gauge    == {"NOT_STARTED", "IN_REVIEW", "MORE_INFO", "CLEAR", "FLAGGED", "ON_HOLD"}
Decided  == {"CLEAR", "FLAGGED", "ON_HOLD"}
UnderReview == {"IN_REVIEW", "MORE_INFO"}

\* A NULL expiry. Every Clear expires after it is decided, so later than 0.
NoExpiry == 0

RowTypeOK ==
    /\ role \in [Staff -> Roles]
    /\ active \in [Staff -> BOOLEAN]
    /\ pipeline \in {"IN_PIPELINE", "NOT_IN_PIPELINE"}
    /\ journey \in Journeys
    /\ rm \in Staff \union {NoUser}
    /\ gauge \in Gauge
    /\ expires \in Nat
    /\ reviewer \in Staff \union {NoUser}
    /\ now \in Nat

RowInit ==
    /\ role = HiredAs
    /\ active = [u \in Staff |-> TRUE]
    /\ pipeline \in {"IN_PIPELINE", "NOT_IN_PIPELINE"}
    /\ journey = "LEAD"
    /\ rm = NoUser
    /\ gauge = "NOT_STARTED"
    /\ expires = NoExpiry
    /\ reviewer = NoUser
    /\ now = 0

-----------------------------------------------------------------------------
(* Who may act. A deactivated account is refused before any service runs.  *)

Operations(u) == active[u] /\ role[u] = "OPERATIONS"
Compliance(u) == active[u] /\ role[u] = "COMPLIANCE"

MaySetRM(actor, target) ==
    \/ actor \in SalesLeads
    \/ rm = NoUser /\ target = actor /\ Operations(actor)

EligibleRM(target) == target \in Staff /\ Operations(target)

\* The one writer of the column. A person changing or clearing an RM gives a
\* reason, which any caller can.
SetRM(actor, target) ==
    /\ target # rm
    /\ MaySetRM(actor, target)
    /\ target = NoUser \/ EligibleRM(target)
    /\ rm' = target

\* Starting a check or qualifying a company in the pipeline makes it
\* somebody's. The target is NoUser when the request names none.
EnsureRM(actor, target) ==
    \/ pipeline = "NOT_IN_PIPELINE" /\ rm' = rm
    \/ /\ pipeline = "IN_PIPELINE"
       /\ rm # NoUser
       /\ target \in {NoUser, rm}
       /\ rm' = rm
    \/ /\ pipeline = "IN_PIPELINE"
       /\ rm = NoUser
       /\ target # NoUser
       /\ SetRM(actor, target)

(* The move to CUSTOMER, made by whichever of CLEAR and QUALIFIED lands    *)
(* second, in that operation's own transaction.                            *)

IsClearCurrent(value, expiry) == value = "CLEAR" /\ now < expiry

\* Mutant: an expired Clear promotes.
PromoteIfClear(stage, value, expiry) ==
    IF stage = "PROSPECT" /\ value = "CLEAR" THEN "CUSTOMER" ELSE stage

PromoteIfReady(stage, value, expiry) ==
    IF stage = "PROSPECT" /\ IsClearCurrent(value, expiry) THEN "CUSTOMER" ELSE stage

-----------------------------------------------------------------------------
(* PATCH and PUT .../relationship-manager.                                 *)
AssignRM(actor, target) ==
    /\ active[actor]
    /\ SetRM(actor, target)
    /\ UNCHANGED <<pipeline, journey, gauge, expires, reviewer, staffVars, now>>

(* A buyer-only company is brought into the sales pipeline: one way.       *)
BringIntoPipeline(actor) ==
    /\ active[actor]
    /\ pipeline = "NOT_IN_PIPELINE"
    /\ pipeline' = "IN_PIPELINE"
    /\ UNCHANGED <<journey, rm, gauge, expires, reviewer, staffVars, now>>

(* An administrator edits an account. Nothing about the companies it owns  *)
(* or reviews is rechecked.                                                *)
UpdateUser(u) ==
    /\ \E r \in Roles, a \in BOOLEAN :
          /\ <<r, a>> # <<role[u], active[u]>>
          /\ role' = [role EXCEPT ![u] = r]
          /\ active' = [active EXCEPT ![u] = a]
    /\ UNCHANGED <<rowVars, now>>

Tick ==
    /\ now < Horizon
    /\ now' = now + 1
    /\ UNCHANGED <<rowVars, staffVars>>

RowNext ==
    \/ \E actor \in Staff, target \in Staff \union {NoUser} : AssignRM(actor, target)
    \/ \E actor \in Staff : BringIntoPipeline(actor)
    \/ \E u \in Edited : UpdateUser(u)
    \/ Tick

-----------------------------------------------------------------------------
(* ck_exporter_profile_reviewer_under_review: a reviewer is only ever on a *)
(* check that is under review. A row that broke it would make the database *)
(* refuse the whole operation.                                             *)
ReviewerOnlyUnderReview == reviewer # NoUser => gauge \in UnderReview

(* The expiry column is the current Clear's: set with it, cleared by every *)
(* move away from it.                                                      *)
ExpiryIffClear == expires # NoExpiry <=> gauge = "CLEAR"

(* promote_to_customer_if_ready: a PROSPECT whose check is CLEAR is only   *)
(* ever one whose Clear has expired, whichever of the two came second.     *)
NoPromotionMissed == ~(journey = "PROSPECT" /\ IsClearCurrent(gauge, expires))

(* A journey only moves forward, one stage or two, and a company becomes a *)
(* CUSTOMER only on a Clear that is current at that moment.                *)
JourneyStep ==
    /\ <<journey, journey'>> \in
          {<<"LEAD", "PROSPECT">>, <<"LEAD", "CUSTOMER">>, <<"PROSPECT", "CUSTOMER">>}
    /\ journey' = "CUSTOMER" => gauge' = "CLEAR" /\ now' < expires'
JourneyOnlyForward == [][JourneyStep]_journey
=============================================================================
