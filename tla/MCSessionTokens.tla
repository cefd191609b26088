-------------------------- MODULE MCSessionTokens ---------------------------
(***************************************************************************)
(* From a login to a session, in two parts that share no state: what the   *)
(* tokens of logins admit, and whose session a login becomes. One run      *)
(* checks each on its own instance; the part that is not taken stays in    *)
(* one initial state.                                                      *)
(***************************************************************************)
EXTENDS SessionTokens, Directory, TLC

CONSTANTS admin, ADMIN, ann, Ann, torn

VARIABLE part  \* the part that runs

Account == INSTANCE Accounts

Symmetry == Permutations(Logins) \union Permutations(Callers)

\* Two names in two cases, and one that cannot be a login name.
TypedNames == {admin, ADMIN, ann, Ann, torn}
FoldedNames == [t \in TypedNames |-> IF t = ADMIN THEN admin ELSE IF t = Ann THEN ann ELSE t]

\* The smallest layout that leaves room for two clients, and every layout with
\* one id of it changed.
SmallLayout ==
  [AdminUID |-> 3, AliasUID |-> 2, AdminGroupGID |-> 2, SharedGroupGID |-> 3,
   UIDBase |-> 4, GIDBase |-> 4, MaxID |-> 6]
SmallLayouts == {SmallLayout} \union
  {[SmallLayout EXCEPT ![f] = id] : f \in Fields, id \in 0..6}

LoginInit ==
  /\ part \in {"tokens", "accounts"}
  /\ part = "tokens" => configured = FALSE
  /\ Init
  /\ Account!Init

LoginNext ==
  /\ UNCHANGED part
  /\ \/ part = "tokens" /\ Next /\ UNCHANGED accountVars
     \/ part = "accounts" /\ Account!Next /\ UNCHANGED vars

LoginSpec == LoginInit /\ [][LoginNext]_<<part, vars, accountVars>>

TypesOK == TypeOK /\ Account!TypeOK
=============================================================================
