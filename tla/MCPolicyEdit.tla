---------------------------- MODULE MCPolicyEdit ----------------------------
(* Instances of PolicyEdit for TLC: instances are left out.                  *)
EXTENDS PolicyEdit

CONSTANTS c1, s1, s2

NoNodes == [a \in {} |-> a]
=============================================================================
