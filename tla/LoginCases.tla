------------------------------ MODULE LoginCases ------------------------------
(***************************************************************************)
(* A small estate for Login.tla in which names collide in every way: two   *)
(* guests with one id, a guest named like the other instance's node, and a *)
(* guest whose name has an "@" and an instance after it.                   *)
(***************************************************************************)

CaseRow ==
    [web  |-> [inst |-> "i1", type |-> "ct", vmid |-> "100", id |-> "ct100", name |-> <<"web">>],
     rome |-> [inst |-> "i2", type |-> "ct", vmid |-> "100", id |-> "ct100", name |-> <<"rome">>],
     mail |-> [inst |-> "i1", type |-> "vm", vmid |-> "102", id |-> "vm102", name |-> <<"mail", "oslo">>]]

CaseNodeName == [i1 |-> "rome", i2 |-> "oslo"]

CaseGuests == DOMAIN CaseRow
CaseInstances == DOMAIN CaseNodeName

\* The consoles of the other instance are attached through termproxy.
CaseWithSSHHost == {"i1"}

CaseNames ==
    {<<"rome">>, <<"web">>, <<"ct100">>, <<"rome", "oslo">>, <<"mail", "oslo">>,
     <<"mail", "oslo", "rome">>, <<"admin">>}

CaseOwnName == <<"web">>
=============================================================================
