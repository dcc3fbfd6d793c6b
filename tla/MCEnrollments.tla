---------------------------- MODULE MCEnrollments ----------------------------
(* Instances of Enrollments for TLC.                                       *)
EXTENDS Enrollments, TLC

CONSTANTS w1, w2, s1, s2

\* Workers and students are interchangeable; used for safety runs only.
Symmetry == Permutations(Workers) \cup Permutations(Students)
=============================================================================
