-------------------------- MODULE MCHelperSession ---------------------------
(* Instances of HelperSession for TLC.                                       *)
EXTENDS HelperSession

CONSTANTS r1, r2, r3
=============================================================================
