---------------------------- MODULE MCEventStream ----------------------------
(* Instances of EventStream for TLC.                                       *)
EXTENDS EventStream

CONSTANTS i1, i2, g1, g2
=============================================================================
