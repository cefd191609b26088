---------------------------- MODULE EditedPolicy ----------------------------
(***************************************************************************)
(* The state of the default policy and of those who edit it, and what is   *)
(* claimed of it. How it changes is PolicyEdit.                            *)
(***************************************************************************)
EXTENDS EditedRows

VARIABLES
  policy,    (* the stored row; without a row, GetDefaultPolicy says the same *)
             (* as for an empty one                                          *)
  held,      (* the policy an editor holds                                   *)
  ready,     (* a command has made its change to it                          *)
  means,     (* the entries an editor has changed in it                      *)
  flips,     (* it has changed the flag in it                                *)
  current    (* history: nobody else wrote since it was loaded               *)

policyVars == <<policy, held, ready, means, flips, current>>

\* In this step e changes the table: a command is done, a page has everybody's
\* copy out of date but its own.
Changed(e) ==
  policy' # policy /\ IF e \in Commands THEN ready[e] /\ ~ready'[e] ELSE current'[e]

Differ(p, q) == (p.subjects \ q.subjects) \union (q.subjects \ p.subjects)

\* An editor nobody overtook changes exactly the entries it meant to, and the
\* flag only on purpose as far as the page goes.
FreshPolicyWrites ==
  [][ \A e \in Editors : Changed(e) /\ current[e] =>
        /\ Differ(policy, policy') \subseteq means[e]
        /\ e \in Pages => (policy.node # policy'.node <=> flips[e]) ]_policyVars
=============================================================================
