--------------------------- MODULE OnboardingLife ---------------------------
(***************************************************************************)
(* What an onboarding request promises, whoever drives it: its status      *)
(* walks the permitted table from DRAFT, one edge at a time, and each edge *)
(* it crosses leaves one event.                                            *)
(***************************************************************************)
EXTENDS Sequences

VARIABLES status,  \* onboarding_request.status
          trail    \* its status_changed events, oldest first: edges

Statuses ==
  {"DRAFT", "ENTITY_VERIFICATION_IN_PROGRESS", "UNDER_REVIEW", "ENTITY_VERIFIED",
   "UBO_MAPPING_IN_PROGRESS", "UBO_MAPPING_COMPLETE",
   "DOCUMENT_COLLECTION_IN_PROGRESS", "DOCUMENT_COLLECTION_COMPLETE",
   "SCREENING_IN_PROGRESS", "SCREENING_COMPLETE",
   "RISK_RATING_IN_PROGRESS", "RISK_RATED",
   "PENDING_COMPLIANCE_APPROVAL", "APPROVED",
   "ACCOUNT_CREATION_IN_PROGRESS", "ACTIVE", "REJECTED", "ABANDONED"}

\* PERMITTED_TRANSITIONS, as the set of its edges.
Permitted ==
  {<<"DRAFT", "ENTITY_VERIFICATION_IN_PROGRESS">>,
   <<"ENTITY_VERIFICATION_IN_PROGRESS", "ENTITY_VERIFIED">>,
   <<"ENTITY_VERIFICATION_IN_PROGRESS", "UNDER_REVIEW">>,
   <<"ENTITY_VERIFICATION_IN_PROGRESS", "REJECTED">>,
   <<"UNDER_REVIEW", "ENTITY_VERIFIED">>,
   <<"UNDER_REVIEW", "REJECTED">>,
   <<"ENTITY_VERIFIED", "UBO_MAPPING_IN_PROGRESS">>,
   <<"UBO_MAPPING_IN_PROGRESS", "UBO_MAPPING_COMPLETE">>,
   <<"UBO_MAPPING_COMPLETE", "DOCUMENT_COLLECTION_IN_PROGRESS">>,
   <<"DOCUMENT_COLLECTION_IN_PROGRESS", "DOCUMENT_COLLECTION_COMPLETE">>,
   <<"DOCUMENT_COLLECTION_IN_PROGRESS", "REJECTED">>,
   <<"DOCUMENT_COLLECTION_IN_PROGRESS", "ABANDONED">>,
   <<"DOCUMENT_COLLECTION_COMPLETE", "SCREENING_IN_PROGRESS">>,
   <<"SCREENING_IN_PROGRESS", "SCREENING_COMPLETE">>,
   <<"SCREENING_IN_PROGRESS", "REJECTED">>,
   <<"SCREENING_COMPLETE", "RISK_RATING_IN_PROGRESS">>,
   <<"RISK_RATING_IN_PROGRESS", "RISK_RATED">>,
   <<"RISK_RATED", "PENDING_COMPLIANCE_APPROVAL">>,
   <<"PENDING_COMPLIANCE_APPROVAL", "APPROVED">>,
   <<"PENDING_COMPLIANCE_APPROVAL", "REJECTED">>,
   <<"APPROVED", "ACCOUNT_CREATION_IN_PROGRESS">>,
   <<"ACCOUNT_CREATION_IN_PROGRESS", "ACTIVE">>}

Terminal == {"ACTIVE", "REJECTED", "ABANDONED"}

Init == status = "DRAFT" /\ trail = << >>

Cross == /\ <<status, status'>> \in Permitted
         /\ trail' = Append(trail, <<status, status'>>)

Spec == Init /\ [][Cross]_<<status, trail>>
=============================================================================
