---------------------------- MODULE MCInventory ----------------------------
(* Instances of Inventory for TLC: hosts, guests and subjects are model      *)
(* values, the instances a database starts with a short sequence of hosts.   *)
EXTENDS Inventory, TLC

CONSTANTS h1, v1, v2, s1, loop, admin, admin2

OneRegistered  == <<h1>>

\* Two administrators can do the same things, which include all the loop does.
Administrators == Permutations({admin, admin2})
=============================================================================
