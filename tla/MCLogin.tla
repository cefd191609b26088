------------------------------- MODULE MCLogin -------------------------------
(***************************************************************************)
(* Login.tla alone, on the estate of LoginCases.                           *)
(***************************************************************************)
EXTENDS Login, LoginCases

\* The user types their own name and another.
TwoNames == {<<"web">>, <<"rome">>}
=============================================================================
