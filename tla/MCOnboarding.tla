---------------------------- MODULE MCOnboarding ----------------------------
(* The instance TLC checks: two customers' submissions, an activity with two *)
(* attempts, two faults, three executions, one signal in all.                *)
EXTENDS Onboarding
=============================================================================
