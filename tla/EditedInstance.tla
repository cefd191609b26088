--------------------------- MODULE EditedInstance ---------------------------
(***************************************************************************)
(* The state of one row of proxmox_instances and of those who edit it, and *)
(* what is claimed of it. How it changes is InstanceEdit.                  *)
(***************************************************************************)
EXTENDS EditedRows

Field == {"addr", "rest"}

VARIABLES
  row,      (* the stored row; once removed its id never comes back          *)
  spent,    (* the id has been handed out                                    *)
  step,     (* an editor is "idle", has "read", or is "ready" to write       *)
  form,     (* what an editor holds                                          *)
  given,    (* the fields an editor means to change                          *)
  fresh,    (* history: nobody else wrote since the editor read              *)
  unpaired  (* history: a page has added the row or moved its address        *)

instanceVars == <<row, spent, step, form, given, fresh, unpaired>>

\* The stored node is the one at the stored address, which is what termproxy
\* needs to open a console, unless a page added the row or moved its address.
\* However the updates overlap: one that is lost loses the address and its node
\* together.
NodeMatchesAddress == row # Absent /\ ~unpaired => row.node = NodeAt[row.addr]

Got(e, f) == row[f] # row'[f] => f \in given[e]

\* An editor whose copy is up to date changes only the fields it means to.
FreshInstanceWrites ==
  [][ \A e \in Editors : step[e] = "ready" /\ fresh[e] /\ row' # row /\ row' # Absent
                         /\ step'[e] = "idle" => \A f \in Field : Got(e, f) ]_instanceVars
=============================================================================
