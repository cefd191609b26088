----------------------------- MODULE PolicyEdit -----------------------------
(***************************************************************************)
(* The default policy under its editors.                                   *)
(*                                                                         *)
(* The one row of default_policy says which clients and groups reach every *)
(* guest, and by a flag whether they reach every node too. "policy add"    *)
(* and "policy rm" fetch it over the API, change one entry and put the     *)
(* whole policy back; the page of the web UI loads it, lets the            *)
(* administrator tick entries and the flag, and puts it back. The mappers  *)
(* of the session side carry the two lists over the wire and not the flag. *)
(***************************************************************************)
EXTENDS EditedPolicy

PolicyTypeOK ==
  /\ policy \in PolicyRow
  /\ held \in [Editors -> PolicyRow \union {NoForm}]
  /\ ready \in [Editors -> BOOLEAN]
  /\ means \in [Editors -> SUBSET Entries]
  /\ flips \in [Editors -> BOOLEAN]
  /\ current \in [Editors -> BOOLEAN]
  /\ \A e \in Editors : held[e] = NoForm => ~ready[e] /\ means[e] = {} /\ ~flips[e]

PolicyInit ==
  /\ policy \in PolicyRow
  /\ held = [e \in Editors |-> NoForm]
  /\ ready = [e \in Editors |-> FALSE]
  /\ means = [e \in Editors |-> {}]
  /\ flips = [e \in Editors |-> FALSE]
  /\ current = [e \in Editors |-> FALSE]

\* toAPIDefaultPolicy and fromAPIDefaultPolicy of the session: node_access is
\* not copied, and the server reads an absent flag as off.
OverTheWire(p) == [p EXCEPT !.node = FALSE]

Toggle(set, s) == IF s \in set THEN set \ {s} ELSE set \union {s}

Holds(e, p) ==
  /\ held' = [held EXCEPT ![e] = p]
  /\ ready' = [ready EXCEPT ![e] = FALSE]
  /\ means' = [means EXCEPT ![e] = {}]
  /\ flips' = [flips EXCEPT ![e] = FALSE]

\* GetDefaultPolicy.
CommandReads(e) ==
  /\ e \in Commands
  /\ held[e] = NoForm
  /\ Holds(e, OverTheWire(policy))
  /\ current' = [current EXCEPT ![e] = TRUE]
  /\ UNCHANGED policy

\* Mutant: "policy add" replaces the list instead of appending to it.
CommandReplaces(e, s, adds) ==
  /\ e \in Commands
  /\ held[e] # NoForm /\ ~ready[e]
  /\ held' = [held EXCEPT ![e].subjects = IF adds THEN {s} ELSE @ \ {s}]
  /\ means' = [means EXCEPT ![e] = {s}]
  /\ ready' = [ready EXCEPT ![e] = TRUE]
  /\ UNCHANGED <<policy, flips, current>>

\* appendUnique or removeInt64, once the name is resolved; the command says
\* "added" or "removed" here, before anything is stored.
CommandChanges(e, s, adds) ==
  /\ e \in Commands
  /\ held[e] # NoForm /\ ~ready[e]
  /\ held' = [held EXCEPT ![e].subjects = IF adds THEN @ \union {s} ELSE @ \ {s}]
  /\ means' = [means EXCEPT ![e] = {s}]
  /\ ready' = [ready EXCEPT ![e] = TRUE]
  /\ UNCHANGED <<policy, flips, current>>

\* SetDefaultPolicy replaces the row; every other copy is out of date.
Stores(e, p) ==
  /\ policy' = p
  /\ current' = [f \in Editors |-> f = e /\ e \in Pages]

CommandWrites(e) ==
  /\ e \in Commands
  /\ ready[e]
  /\ Stores(e, OverTheWire(held[e]))
  /\ Holds(e, NoForm)

\* loadPolicy, when the page is opened, again or for the first time.
PageLoads(e) ==
  /\ e \in Pages
  /\ Holds(e, policy)
  /\ current' = [current EXCEPT ![e] = TRUE]
  /\ UNCHANGED policy

\* togglePolicy and toggleNodeAccess.
PageToggles(e, s) ==
  /\ e \in Pages
  /\ held[e] # NoForm
  /\ held' = [held EXCEPT ![e].subjects = Toggle(@, s)]
  /\ means' = [means EXCEPT ![e] = Toggle(@, s)]
  /\ UNCHANGED <<policy, ready, flips, current>>

PageTogglesNode(e) ==
  /\ e \in Pages
  /\ held[e] # NoForm
  /\ held' = [held EXCEPT ![e].node = ~@]
  /\ flips' = [flips EXCEPT ![e] = ~@]
  /\ UNCHANGED <<policy, ready, means, current>>

\* savePolicy; the page stays open on what it saved.
PageSaves(e) ==
  /\ e \in Pages
  /\ held[e] # NoForm
  /\ Stores(e, held[e])
  /\ Holds(e, held[e])

\* The name does not resolve, a request fails, or the page is left.
LeavesPolicy(e) ==
  /\ held[e] # NoForm
  /\ Holds(e, NoForm)
  /\ current' = [current EXCEPT ![e] = FALSE]
  /\ UNCHANGED policy

PolicyNext ==
  \E e \in Editors :
    \/ CommandReads(e) \/ CommandWrites(e)
    \/ PageLoads(e) \/ PageTogglesNode(e) \/ PageSaves(e)
    \/ LeavesPolicy(e)
    \/ \E s \in Entries :
         PageToggles(e, s) \/ \E adds \in BOOLEAN : CommandChanges(e, s, adds)

PolicySpec == PolicyInit /\ [][PolicyNext]_policyVars

-----------------------------------------------------------------------------
(* Properties.                                                               *)

\* e puts its form into the table in this step.
WriteOf(e) == (e \in Commands /\ CommandWrites(e)) \/ (e \in Pages /\ PageSaves(e))

\* "Every field is copied": a command leaves the node_access flag as it is.
\* The code switches it off.
CommandsKeepNodeAccess ==
  [][ \A e \in Commands : WriteOf(e) /\ current[e] => policy'.node = policy.node ]_policyVars
=============================================================================
