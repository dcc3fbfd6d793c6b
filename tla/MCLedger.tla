------------------------------ MODULE MCLedger ------------------------------
(* Instances of ContractLedger for TLC: one or two workers, teachers and   *)
(* contracts.                                                              *)
EXTENDS ContractLedger, TLC

CONSTANTS w1, w2, c1, c2, t1, t2

\* Workers, contracts and teachers are interchangeable; used for safety runs only.
Symmetry == Permutations(Workers) \cup Permutations(Contracts)
                \cup Permutations(Teachers)
=============================================================================
