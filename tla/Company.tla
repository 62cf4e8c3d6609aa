------------------------------- MODULE Company -------------------------------
(***************************************************************************)
(* One company's whole compliance life: the background check and the       *)
(* qualification meeting in the journey, each under the row's lock.        *)
(***************************************************************************)
EXTENDS BackgroundCheck, Qualification

companyVars == <<vars, qualification>>

CompanyInit == Init /\ QualificationInit

CompanyNext ==
    \/ CheckNext /\ UNCHANGED qualification
    \/ QualificationNext /\ UNCHANGED checkVars
    \/ RowNext /\ UNCHANGED <<checkVars, qualification>>

CompanySpec == CompanyInit /\ [][CompanyNext]_companyVars

-----------------------------------------------------------------------------
CompanyTypeOK == TypeOK /\ QualificationTypeOK

(* Only qualification takes a company past LEAD, and it never leaves one   *)
(* behind: nothing the check does, and no way into the pipeline, qualifies *)
(* a company (ck_exporter_profile_not_in_pipeline_start).                  *)
QualifiedIffPastLead ==
    /\ journey # "LEAD" <=> qualification = "QUALIFIED"
    /\ pipeline = "NOT_IN_PIPELINE" => qualification = "NOT_YET_REVIEWED"
=============================================================================
