----------------------------- MODULE MCApiClient -----------------------------
(* Instances of ApiClient for TLC: a payment and a read, made by one tab   *)
(* or by two.                                                              *)
EXTENDS ApiClient

CONSTANTS t1, t2, pay, list
=============================================================================
