-------------------------- MODULE MCEnrollmentWizard --------------------------
(* Instances of EnrollmentWizard for TLC: a student who is registered, one *)
(* who is not, and a section.                                              *)
EXTENDS EnrollmentWizard

CONSTANTS old, new, c1
=============================================================================
