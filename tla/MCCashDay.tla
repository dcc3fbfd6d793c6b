------------------------------ MODULE MCCashDay ------------------------------
(* Instances of CashDay for TLC.                                           *)
EXTENDS CashDay, TLC

CONSTANTS w1, w2, r1, r2

\* Workers and refunds are interchangeable; used for safety runs only.
Symmetry == Permutations(Workers) \cup Permutations(Refunds)
=============================================================================
