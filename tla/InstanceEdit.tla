---------------------------- MODULE InstanceEdit ----------------------------
(***************************************************************************)
(* One row of proxmox_instances under its editors.                         *)
(*                                                                         *)
(* "instance update" lists the rows, changes the fields it has flags for,  *)
(* resolves the node name again when the address moved, and puts the whole *)
(* row back; the page of the web UI does the same from the row it was      *)
(* showing, except that it never resolves anything. Nothing ties the row   *)
(* put back to the row read: no version, no transaction.                   *)
(*                                                                         *)
(* A row has an address (url and ssh_host, which together decide the node), *)
(* the node name stored for that address, and the rest of its settings.    *)
(***************************************************************************)
EXTENDS EditedInstance

TypeOK ==
  /\ row \in InstanceRow \union {Absent}
  /\ spent \in BOOLEAN
  /\ row # Absent => spent
  /\ step \in [Editors -> {"idle", "read", "ready"}]
  /\ form \in [Editors -> InstanceRow \union {Absent}]
  /\ \A e \in Editors : step[e] # "idle" <=> form[e] # Absent
  /\ given \in [Editors -> SUBSET Field]
  /\ fresh \in [Editors -> BOOLEAN]
  /\ unpaired \in BOOLEAN

Init ==
  /\ row = Absent
  /\ spent = FALSE
  /\ step = [e \in Editors |-> "idle"]
  /\ form = [e \in Editors |-> Absent]
  /\ given = [e \in Editors |-> {}]
  /\ fresh = [e \in Editors |-> FALSE]
  /\ unpaired = FALSE

Adds(e, r) ==
  /\ ~spent
  /\ spent' = TRUE
  /\ row' = r
  /\ unpaired' = (e \in Pages)
  /\ UNCHANGED <<step, form, given, fresh>>

\* "instance add" resolves the node before it stores the row.
CommandAdds(e, a, s) ==
  e \in Commands /\ Adds(e, [addr |-> a, node |-> NodeAt[a], rest |-> s])

\* The page's form has no field for the node and AddInstance stores the body
\* as it comes.
PageAdds(e, a, s) ==
  e \in Pages /\ Adds(e, [addr |-> a, node |-> NoNode, rest |-> s])

\* findInstanceByName, or openEdit on a row of the list.
Reads(e) ==
  /\ step[e] = "idle"
  /\ row # Absent
  /\ step' = [step EXCEPT ![e] = "read"]
  /\ form' = [form EXCEPT ![e] = row]
  /\ given' = [given EXCEPT ![e] = {}]
  /\ fresh' = [fresh EXCEPT ![e] = TRUE]
  /\ UNCHANGED <<row, spent, unpaired>>

\* Mutant: a moved address keeps the node resolved for the old one.
CommandKeepsNode(e, a, s) ==
  LET old == form[e] IN
  /\ e \in Commands
  /\ step[e] = "read"
  /\ form' = [form EXCEPT ![e] = [addr |-> a, node |-> old.node, rest |-> s]]
  /\ given' = [given EXCEPT ![e] = {f \in Field :
                \/ f = "addr" /\ a # old.addr
                \/ f = "rest" /\ s # old.rest}]
  /\ step' = [step EXCEPT ![e] = "ready"]
  /\ UNCHANGED <<row, spent, fresh, unpaired>>

\* applyInstanceFlags, and the node resolved anew when url or ssh-host was given,
\* even where that gave the address it had.
CommandApplies(e, a, s) ==
  LET old == form[e] IN
  /\ e \in Commands
  /\ step[e] = "read"
  /\ \E node \in {NodeAt[a]} \union IF a = old.addr THEN {old.node} ELSE {} :
       form' = [form EXCEPT ![e] = [addr |-> a, node |-> node, rest |-> s]]
  /\ given' = [given EXCEPT ![e] = {f \in Field :
                \/ f = "addr" /\ a # old.addr
                \/ f = "rest" /\ s # old.rest}]
  /\ step' = [step EXCEPT ![e] = "ready"]
  /\ UNCHANGED <<row, spent, fresh, unpaired>>

PageApplies(e, a, s) ==
  LET old == form[e] IN
  /\ e \in Pages
  /\ step[e] = "read"
  /\ form' = [form EXCEPT ![e].addr = a, ![e].rest = s]
  /\ given' = [given EXCEPT ![e] = {f \in Field :
                \/ f = "addr" /\ a # old.addr
                \/ f = "rest" /\ s # old.rest}]
  /\ step' = [step EXCEPT ![e] = "ready"]
  /\ UNCHANGED <<row, spent, fresh, unpaired>>

\* Done with the form: the command ends, the dialog closes.
Leaves(e) ==
  /\ step' = [step EXCEPT ![e] = "idle"]
  /\ form' = [form EXCEPT ![e] = Absent]
  /\ given' = [given EXCEPT ![e] = {}]

\* Mutant: the page puts the address back and defaults for the rest.
WritesDefaults(e) ==
  /\ step[e] = "ready"
  /\ row # Absent
  /\ row' = [form[e] EXCEPT !.rest = CHOOSE s \in Settings : TRUE]
  /\ Leaves(e)
  /\ fresh' = [f \in Editors |-> FALSE]
  /\ unpaired' = (unpaired \/ (e \in Pages /\ "addr" \in given[e]))
  /\ UNCHANGED spent

\* UpdateInstance: the row must still be there; every column is replaced.
Writes(e) ==
  /\ step[e] = "ready"
  /\ row # Absent
  /\ row' = form[e]
  /\ Leaves(e)
  /\ fresh' = [f \in Editors |-> FALSE]
  /\ unpaired' = (unpaired \/ (e \in Pages /\ "addr" \in given[e]))
  /\ UNCHANGED spent

\* The node cannot be resolved, termproxy is not supported, the row is gone
\* (404), or the dialog is cancelled.
GivesUp(e) ==
  /\ step[e] # "idle"
  /\ Leaves(e)
  /\ fresh' = [fresh EXCEPT ![e] = FALSE]
  /\ UNCHANGED <<row, spent, unpaired>>

Removes ==
  /\ row # Absent
  /\ row' = Absent
  /\ fresh' = [f \in Editors |-> FALSE]
  /\ UNCHANGED <<spent, step, form, given, unpaired>>

Next ==
  \/ \E e \in Editors :
       \/ Reads(e) \/ Writes(e) \/ GivesUp(e)
       \/ \E a \in Addresses, s \in Settings :
            \/ CommandAdds(e, a, s) \/ CommandApplies(e, a, s)
            \/ PageAdds(e, a, s) \/ PageApplies(e, a, s)
  \/ Removes

Spec == Init /\ [][Next]_instanceVars
=============================================================================
