---------------------------- MODULE MCSalaryDraws ----------------------------
(* Instances of SalaryDraws for TLC.                                       *)
EXTENDS SalaryDraws, TLC

CONSTANTS w1, w2

\* Workers are interchangeable; used for safety runs only.
Symmetry == Permutations(Workers)
=============================================================================
