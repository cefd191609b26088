--------------------------- MODULE Editing_proofs ---------------------------
(***************************************************************************)
(* For any number of commands and pages that read a row, change their copy *)
(* and put it back whole: an editor nobody overtook changes what it means  *)
(* to and nothing else, in an instance row (InstanceEdit) and in the       *)
(* default policy (PolicyEdit); and the stored node of an instance goes    *)
(* with its stored address as long as no page interferes.                  *)
(*                                                                         *)
(* All rests on what the copies hold, not on the row alone: a lost update  *)
(* is harmless because the copy that wins is itself in order.              *)
(***************************************************************************)
EXTENDS InstanceEdit, PolicyEdit, TLAPS

(***************************************************************************)
(* An instance row                                                         *)
(***************************************************************************)
\* A form that a page has not re-addressed carries the node of its address, at
\* least while no page has had its way with the row.
FormsMatch ==
  ~unpaired =>
    \A e \in Editors :
      step[e] # "idle" /\ (e \in Commands \/ "addr" \notin given[e])
        => form[e].node = NodeAt[form[e].addr]

\* The form of an editor nobody has overtaken differs from the row in what it
\* means to change.
FormsAreMeant ==
  \A e \in Editors :
    step[e] # "idle" /\ fresh[e] =>
      /\ row # Absent
      /\ step[e] = "read" => form[e] = row
      /\ \A f \in Field : form[e][f] # row[f] => f \in given[e]

\* Nothing is meant until the form has been changed, and nobody has a form of
\* a row that has not been.
NothingGiven ==
  /\ \A e \in Editors : step[e] # "ready" => given[e] = {}
  /\ ~spent => \A e \in Editors : step[e] = "idle"

IInv == TypeOK /\ NodeMatchesAddress /\ FormsMatch /\ FormsAreMeant /\ NothingGiven

LEMMA InitHolds == Init => IInv
BY EditAssumption
DEF Init, IInv, TypeOK, NodeMatchesAddress, FormsMatch, FormsAreMeant, NothingGiven, Field

-----------------------------------------------------------------------------
\* One lemma for each kind of step.

LEMMA AddKeeps ==
  ASSUME IInv, NEW e \in Editors, NEW r \in InstanceRow, Adds(e, r),
         e \in Commands => r.node = NodeAt[r.addr]
  PROVE  IInv'
<1> USE EditAssumption DEF IInv, Editors
<1>1. /\ ~spent /\ spent'
      /\ row' = r /\ row' # Absent
      /\ UNCHANGED <<step, form, given, fresh>>
  <2>1. ~spent /\ spent' = TRUE /\ row' = r /\ UNCHANGED <<step, form, given, fresh>>
    BY DEF Adds
  <2>2. r # Absent
    BY DEF InstanceRow
  <2> QED BY <2>1, <2>2
<1>u. unpaired' <=> e \in Pages
  BY DEF Adds
<1>b. unpaired' \in BOOLEAN
  BY DEF Adds
<1>2. TypeOK'
  BY <1>1, <1>b DEF TypeOK
<1>3. NodeMatchesAddress'
  BY <1>1, <1>u DEF NodeMatchesAddress
<1>4. \A f \in Editors : step'[f] = "idle"
  BY <1>1 DEF NothingGiven
<1>5. FormsMatch' /\ FormsAreMeant' /\ NothingGiven'
  BY <1>1, <1>4 DEF FormsMatch, FormsAreMeant, NothingGiven
<1> QED BY <1>2, <1>3, <1>5

LEMMA ReadKeeps ==
  ASSUME IInv, NEW e \in Editors, Reads(e)
  PROVE  IInv'
<1> USE EditAssumption DEF IInv
<1>1. /\ step[e] = "idle" /\ row # Absent /\ row \in InstanceRow
      /\ step' = [step EXCEPT ![e] = "read"]
      /\ form' = [form EXCEPT ![e] = row]
      /\ given' = [given EXCEPT ![e] = {}]
      /\ fresh' = [fresh EXCEPT ![e] = TRUE]
      /\ UNCHANGED <<row, spent, unpaired>>
  BY DEF Reads, TypeOK
<1>2. TypeOK'
  BY <1>1 DEF TypeOK
<1>3. NodeMatchesAddress'
  BY <1>1 DEF NodeMatchesAddress
<1>4. FormsMatch'
  BY <1>1 DEF FormsMatch, NodeMatchesAddress, TypeOK
<1>5. FormsAreMeant'
  BY <1>1 DEF FormsAreMeant, TypeOK
<1>6. NothingGiven'
  BY <1>1 DEF NothingGiven, TypeOK
<1> QED BY <1>2, <1>3, <1>4, <1>5, <1>6

\* A change of the form, whoever makes it.
Changes(e, r) ==
  /\ step[e] = "read"
  /\ form' = [form EXCEPT ![e] = r]
  /\ given' = [given EXCEPT ![e] = {f \in Field :
                \/ f = "addr" /\ r.addr # form[e].addr
                \/ f = "rest" /\ r.rest # form[e].rest}]
  /\ step' = [step EXCEPT ![e] = "ready"]
  /\ UNCHANGED <<row, spent, fresh, unpaired>>

LEMMA ChangeKeeps ==
  ASSUME IInv, NEW e \in Editors, NEW r \in InstanceRow, Changes(e, r),
         \/ r.node = NodeAt[r.addr]
         \/ r.node = form[e].node /\ (e \in Commands => r.addr = form[e].addr)
  PROVE  IInv'
<1> USE EditAssumption DEF IInv
<1>1. /\ step[e] = "read" /\ given[e] = {}
      /\ row' = row /\ spent' = spent /\ fresh' = fresh /\ unpaired' = unpaired
      /\ \A f \in Editors : f # e => step'[f] = step[f] /\ form'[f] = form[f] /\ given'[f] = given[f]
      /\ step'[e] = "ready" /\ form'[e] = r
      /\ given'[e] = {f \in Field : \/ f = "addr" /\ r.addr # form[e].addr
                                    \/ f = "rest" /\ r.rest # form[e].rest}
  BY DEF Changes, TypeOK, NothingGiven
<1>2. TypeOK'
  BY <1>1 DEF Changes, TypeOK
<1>3. NodeMatchesAddress'
  BY <1>1 DEF NodeMatchesAddress
<1>4. FormsMatch'
  <2> SUFFICES ASSUME ~unpaired, NEW f \in Editors, step'[f] # "idle",
                      f \in Commands \/ "addr" \notin given'[f]
               PROVE  form'[f].node = NodeAt[form'[f].addr]
    BY <1>1 DEF FormsMatch
  <2>1. CASE f # e
    BY <1>1, <2>1 DEF FormsMatch
  <2>2. CASE f = e
    <3>1. form[e].node = NodeAt[form[e].addr]
      BY <1>1 DEF FormsMatch
    <3>2. r.node = NodeAt[r.addr] \/ r.addr = form[e].addr
      BY <1>1, <2>2 DEF Field
    <3> QED BY <1>1, <2>2, <3>1, <3>2
  <2> QED BY <2>1, <2>2
<1>5. FormsAreMeant'
  BY <1>1 DEF FormsAreMeant, Field
<1>6. NothingGiven'
  BY <1>1 DEF NothingGiven
<1> QED BY <1>2, <1>3, <1>4, <1>5, <1>6

\* The end of an edit, written or not: everybody's copy is as it was.
LEMMA WriteKeeps ==
  ASSUME IInv, NEW e \in Editors, Writes(e)
  PROVE  IInv'
<1> USE EditAssumption DEF IInv
<1>1. /\ step[e] = "ready" /\ row # Absent
      /\ row' = form[e] /\ form[e] \in InstanceRow
      /\ step' = [step EXCEPT ![e] = "idle"]
      /\ form' = [form EXCEPT ![e] = Absent]
      /\ given' = [given EXCEPT ![e] = {}]
      /\ fresh' = [f \in Editors |-> FALSE]
      /\ spent' = spent /\ spent
      /\ unpaired' \in BOOLEAN
      /\ ~unpaired' => ~unpaired /\ (e \in Commands \/ "addr" \notin given[e])
  BY DEF Writes, Leaves, TypeOK, Editors
<1>2. TypeOK'
  BY <1>1 DEF TypeOK
<1>3. NodeMatchesAddress'
  BY <1>1 DEF NodeMatchesAddress, FormsMatch
<1>4. FormsMatch'
  BY <1>1 DEF FormsMatch, TypeOK
<1>5. FormsAreMeant'
  BY <1>1 DEF FormsAreMeant
<1>6. NothingGiven'
  BY <1>1 DEF NothingGiven, TypeOK
<1> QED BY <1>2, <1>3, <1>4, <1>5, <1>6

LEMMA GiveUpKeeps ==
  ASSUME IInv, NEW e \in Editors, GivesUp(e)
  PROVE  IInv'
<1> USE EditAssumption DEF IInv
<1>1. /\ step' = [step EXCEPT ![e] = "idle"]
      /\ form' = [form EXCEPT ![e] = Absent]
      /\ given' = [given EXCEPT ![e] = {}]
      /\ fresh' = [fresh EXCEPT ![e] = FALSE]
      /\ row' = row /\ spent' = spent /\ unpaired' = unpaired
  BY DEF GivesUp, Leaves
<1>2. TypeOK'
  BY <1>1 DEF TypeOK
<1>3. NodeMatchesAddress'
  BY <1>1 DEF NodeMatchesAddress
<1>4. FormsMatch'
  BY <1>1 DEF FormsMatch, TypeOK
<1>5. FormsAreMeant'
  BY <1>1 DEF FormsAreMeant, TypeOK
<1>6. NothingGiven'
  BY <1>1 DEF NothingGiven, TypeOK
<1> QED BY <1>2, <1>3, <1>4, <1>5, <1>6

LEMMA RemovalKeeps ==
  ASSUME IInv, Removes
  PROVE  IInv'
<1> USE EditAssumption DEF IInv
<1>1. TypeOK'
  BY DEF Removes, TypeOK
<1>2. NodeMatchesAddress' /\ FormsAreMeant'
  BY DEF Removes, NodeMatchesAddress, FormsAreMeant
<1>3. FormsMatch' /\ NothingGiven'
  BY DEF Removes, FormsMatch, NothingGiven
<1> QED BY <1>1, <1>2, <1>3

\* Every step keeps the strengthening.
LEMMA StepHolds == IInv /\ [Next]_instanceVars => IInv'
<1> SUFFICES ASSUME IInv, [Next]_instanceVars PROVE IInv'
  OBVIOUS
<1>1. CASE UNCHANGED instanceVars
  BY <1>1 DEF IInv, instanceVars, TypeOK, NodeMatchesAddress, FormsMatch, FormsAreMeant, NothingGiven
<1>2. ASSUME NEW e \in Editors, NEW a \in Addresses, NEW s \in Settings,
             CommandAdds(e, a, s) \/ PageAdds(e, a, s)
      PROVE  IInv'
  <2>1. CASE CommandAdds(e, a, s)
    <3> DEFINE r == [addr |-> a, node |-> NodeAt[a], rest |-> s]
    <3>1. r \in InstanceRow /\ r.node = NodeAt[r.addr] /\ Adds(e, r)
      BY <2>1, EditAssumption DEF CommandAdds, InstanceRow
    <3> QED BY <3>1, AddKeeps
  <2>2. CASE PageAdds(e, a, s)
    <3> DEFINE r == [addr |-> a, node |-> NoNode, rest |-> s]
    <3>1. r \in InstanceRow /\ Adds(e, r) /\ e \notin Commands
      BY <2>2, EditAssumption DEF PageAdds, InstanceRow
    <3> QED BY <3>1, AddKeeps
  <2> QED BY <1>2, <2>1, <2>2
<1>3. ASSUME NEW e \in Editors, NEW a \in Addresses, NEW s \in Settings,
             CommandApplies(e, a, s) \/ PageApplies(e, a, s)
      PROVE  IInv'
  <2>1. step[e] = "read" /\ form[e] \in InstanceRow
    BY <1>3, EditAssumption DEF CommandApplies, PageApplies, IInv, TypeOK
  <2>2. CASE CommandApplies(e, a, s)
    <3>1. PICK node \in {NodeAt[a]} \union (IF a = form[e].addr THEN {form[e].node} ELSE {}) :
             form' = [form EXCEPT ![e] = [addr |-> a, node |-> node, rest |-> s]]
      BY <2>2 DEF CommandApplies
    <3> DEFINE r == [addr |-> a, node |-> node, rest |-> s]
    <3>2. r \in InstanceRow
      BY <2>1, EditAssumption DEF InstanceRow
    <3>3. Changes(e, r)
      BY <2>2, <3>1 DEF CommandApplies, Changes
    <3> QED BY <3>2, <3>3, ChangeKeeps
  <2>3. CASE PageApplies(e, a, s)
    <3> DEFINE r == [form[e] EXCEPT !.addr = a, !.rest = s]
    <3>1. r \in InstanceRow /\ r.addr = a /\ r.rest = s /\ r.node = form[e].node
      BY <2>1 DEF InstanceRow
    <3>2. e \notin Commands
      BY <2>3, EditAssumption DEF PageApplies
    <3>3. form' = [form EXCEPT ![e] = r]
      BY <2>1, <2>3 DEF PageApplies, IInv, TypeOK, InstanceRow
    <3>4. Changes(e, r)
      BY <2>3, <3>1, <3>3 DEF PageApplies, Changes
    <3> QED BY <3>1, <3>2, <3>4, ChangeKeeps
  <2> QED BY <1>3, <2>2, <2>3
<1> QED
  BY <1>1, <1>2, <1>3, ReadKeeps, WriteKeeps, GiveUpKeeps, RemovalKeeps DEF Next

LEMMA Inductive == Spec => []IInv
BY InitHolds, StepHolds, PTL DEF Spec

-----------------------------------------------------------------------------
\* The row and the forms stay rows.
THEOREM TypeCorrect == Spec => []TypeOK
<1>1. IInv => TypeOK
  BY DEF IInv
<1> QED BY <1>1, Inductive, PTL

\* However many edits overlap and whichever is lost, the node termproxy is told
\* is the one resolved for the address it connects to, while no page has added
\* or re-addressed the row.
THEOREM NodeGoesWithAddress == Spec => []NodeMatchesAddress
<1>1. IInv => NodeMatchesAddress
  BY DEF IInv
<1> QED BY <1>1, Inductive, PTL

\* An editor nobody overtook changes the fields it means to and no other.
THEOREM FreshEditsAreExact == Spec => FreshInstanceWrites
<1>1. ASSUME IInv, [Next]_instanceVars
      PROVE  [ \A e \in Editors : step[e] = "ready" /\ fresh[e] /\ row' # row /\ row' # Absent
                 /\ step'[e] = "idle" => \A f \in Field : Got(e, f) ]_instanceVars
  <2> SUFFICES ASSUME NEW e \in Editors, step[e] = "ready", fresh[e], row' # row, row' # Absent,
                      step'[e] = "idle", Next
               PROVE  \A f \in Field : Got(e, f)
    BY <1>1 DEF instanceVars
  \* Of the steps that change the row only the editor's own write ends its edit.
  <2>1. Writes(e)
    <3>1. ASSUME NEW d \in Editors, Writes(d) PROVE d = e
      BY <1>1, <3>1 DEF Writes, Leaves, IInv, TypeOK
    <3>2. ~Removes
      BY DEF Removes
    <3>3. ASSUME NEW d \in Editors, Reads(d) \/ GivesUp(d) PROVE FALSE
      BY <3>3 DEF Reads, GivesUp
    <3>4. ASSUME NEW d \in Editors, NEW a \in Addresses, NEW s \in Settings,
                 \/ CommandAdds(d, a, s) \/ PageAdds(d, a, s)
                 \/ CommandApplies(d, a, s) \/ PageApplies(d, a, s)
          PROVE  FALSE
      BY <3>4 DEF CommandAdds, PageAdds, Adds, CommandApplies, PageApplies
    <3> QED BY <3>1, <3>2, <3>3, <3>4 DEF Next
  <2>2. row' = form[e]
    BY <2>1 DEF Writes
  <2> QED BY <1>1, <2>2 DEF IInv, FormsAreMeant, Got
<1> QED BY <1>1, Inductive, PTL DEF Spec, FreshInstanceWrites

(***************************************************************************)
(* The default policy. A page may tick an entry and untick it again, so    *)
(* what it means is exactly what its copy differs in; a command makes one  *)
(* change, which may be none, but to a copy that differs in nothing.       *)
(***************************************************************************)
\* A command has meant nothing before it makes its change.
NotYetMeant == \A e \in Commands : ~ready[e] => means[e] = {}

\* What the form of an editor nobody overtook differs in is what it means.
EntriesAreMeant ==
  \A e \in Editors : current[e] /\ held[e] # NoForm =>
    /\ Differ(policy, held[e]) \subseteq means[e]
    /\ e \in Pages => means[e] = Differ(policy, held[e])

\* So with the flag, on a page.
FlagIsMeant ==
  \A e \in Pages : current[e] /\ held[e] # NoForm =>
    (policy.node # held[e].node <=> flips[e])

PolicyIInv == PolicyTypeOK /\ NotYetMeant /\ EntriesAreMeant /\ FlagIsMeant

LEMMA PolicyInitHolds == PolicyInit => PolicyIInv
BY EditAssumption DEF PolicyInit, PolicyIInv, PolicyTypeOK, NotYetMeant, EntriesAreMeant, FlagIsMeant, Editors

LEMMA WireKeepsRows ==
  ASSUME NEW p \in PolicyRow
  PROVE  OverTheWire(p) \in PolicyRow /\ OverTheWire(p).subjects = p.subjects
BY DEF OverTheWire, PolicyRow

\* Loading a form, or leaving it.
LEMMA LoadKeeps ==
  ASSUME PolicyIInv, NEW e \in Editors, NEW p \in PolicyRow \union {NoForm}, Holds(e, p),
         policy' \in PolicyRow, current' \in [Editors -> BOOLEAN],
         \A d \in Editors : d # e /\ current'[d] => current[d] /\ policy' = policy,
         current'[e] /\ p # NoForm =>
            p.subjects = policy'.subjects /\ (e \in Pages => p.node = policy'.node)
  PROVE  PolicyIInv'
<1> USE EditAssumption DEF PolicyIInv
<1>1. /\ \A d \in Editors : d # e => /\ held'[d] = held[d] /\ ready'[d] = ready[d]
                                     /\ means'[d] = means[d] /\ flips'[d] = flips[d]
      /\ held'[e] = p /\ ready'[e] = FALSE /\ means'[e] = {} /\ flips'[e] = FALSE
  BY DEF Holds, PolicyTypeOK
<1>2. PolicyTypeOK'
  BY <1>1 DEF Holds, PolicyTypeOK
<1>3. NotYetMeant'
  BY <1>1 DEF NotYetMeant, Editors
<1>4. EntriesAreMeant'
  <2> SUFFICES ASSUME NEW d \in Editors, current'[d], held'[d] # NoForm
               PROVE  /\ Differ(policy', held'[d]) \subseteq means'[d]
                      /\ d \in Pages => means'[d] = Differ(policy', held'[d])
    BY DEF EntriesAreMeant
  <2>1. CASE d = e
    BY <1>1, <2>1 DEF Differ
  <2>2. CASE d # e
    BY <1>1, <2>2 DEF EntriesAreMeant
  <2> QED BY <2>1, <2>2
<1>5. FlagIsMeant'
  <2> SUFFICES ASSUME NEW d \in Pages, current'[d], held'[d] # NoForm
               PROVE  policy'.node # held'[d].node <=> flips'[d]
    BY DEF FlagIsMeant
  <2>1. CASE d = e
    BY <1>1, <2>1
  <2>2. CASE d # e
    <3>1. current[d] /\ policy' = policy
      BY <2>2 DEF Editors
    <3> QED BY <1>1, <2>2, <3>1 DEF FlagIsMeant, Editors
  <2> QED BY <2>1, <2>2
<1> QED BY <1>2, <1>3, <1>4, <1>5

LEMMA ApplyKeeps ==
  ASSUME PolicyIInv, NEW e \in Editors, NEW s \in Entries, NEW adds \in BOOLEAN,
         CommandChanges(e, s, adds)
  PROVE  PolicyIInv'
<1> USE EditAssumption DEF PolicyIInv
<1>1. e \in Commands /\ e \notin Pages /\ held[e] \in PolicyRow /\ means[e] = {}
  BY DEF CommandChanges, PolicyTypeOK, NotYetMeant
<1> DEFINE set == IF adds THEN held[e].subjects \union {s} ELSE held[e].subjects \ {s}
<1>2. /\ policy' = policy /\ current' = current /\ flips' = flips
      /\ \A d \in Editors : d # e => /\ held'[d] = held[d] /\ ready'[d] = ready[d]
                                     /\ means'[d] = means[d]
      /\ ready'[e] = TRUE /\ means'[e] = {s}
      /\ held'[e] = [held[e] EXCEPT !.subjects = set]
  BY DEF CommandChanges, PolicyTypeOK
<1>3. held'[e] \in PolicyRow /\ held'[e].subjects = set
  BY <1>1, <1>2 DEF PolicyRow
<1>4. PolicyTypeOK'
  <2>1. held' \in [Editors -> PolicyRow \union {NoForm}]
    BY <1>2, <1>3 DEF CommandChanges, PolicyTypeOK
  <2>2. means' \in [Editors -> SUBSET Entries] /\ ready' \in [Editors -> BOOLEAN]
    BY DEF CommandChanges, PolicyTypeOK
  <2>3. \A d \in Editors : held'[d] = NoForm => ~ready'[d] /\ means'[d] = {} /\ ~flips'[d]
    BY <1>2, <1>3 DEF PolicyTypeOK
  <2> QED BY <1>2, <2>1, <2>2, <2>3 DEF PolicyTypeOK
<1>5. NotYetMeant'
  BY <1>2 DEF NotYetMeant, Editors
<1>6. EntriesAreMeant'
  <2> SUFFICES ASSUME NEW d \in Editors, current[d], held'[d] # NoForm
               PROVE  /\ Differ(policy, held'[d]) \subseteq means'[d]
                      /\ d \in Pages => means'[d] = Differ(policy, held'[d])
    BY <1>2 DEF EntriesAreMeant
  <2>1. CASE d # e
    BY <1>2, <2>1 DEF EntriesAreMeant
  <2>2. CASE d = e
    <3>1. Differ(policy, held[e]) = {}
      BY <1>1, <2>2 DEF EntriesAreMeant
    <3>2. Differ(policy, held'[e]) \subseteq {s}
      BY <1>3, <3>1 DEF Differ
    <3> QED BY <1>1, <1>2, <2>2, <3>2
  <2> QED BY <2>1, <2>2
<1>7. FlagIsMeant'
  BY <1>1, <1>2 DEF FlagIsMeant, Editors
<1> QED BY <1>4, <1>5, <1>6, <1>7

LEMMA ToggleKeeps ==
  ASSUME PolicyIInv, NEW e \in Editors, NEW s \in Entries, PageToggles(e, s)
  PROVE  PolicyIInv'
<1> USE EditAssumption DEF PolicyIInv
<1>1. e \in Pages /\ e \notin Commands /\ held[e] \in PolicyRow
  BY DEF PageToggles, PolicyTypeOK
<1>2. /\ policy' = policy /\ current' = current /\ flips' = flips /\ ready' = ready
      /\ \A d \in Editors : d # e => held'[d] = held[d] /\ means'[d] = means[d]
      /\ means'[e] = Toggle(means[e], s)
      /\ held'[e] = [held[e] EXCEPT !.subjects = Toggle(held[e].subjects, s)]
  BY DEF PageToggles, PolicyTypeOK
<1>3. /\ held'[e] \in PolicyRow /\ held'[e].node = held[e].node
      /\ held'[e].subjects = Toggle(held[e].subjects, s)
  BY <1>1, <1>2 DEF PolicyRow, Toggle
<1>4. PolicyTypeOK'
  <2>1. held' \in [Editors -> PolicyRow \union {NoForm}]
    BY <1>2, <1>3 DEF PageToggles, PolicyTypeOK
  <2>2. Toggle(means[e], s) \in SUBSET Entries
    BY DEF PolicyTypeOK, Toggle
  <2>3. means' \in [Editors -> SUBSET Entries]
    BY <2>2 DEF PageToggles, PolicyTypeOK
  <2>4. held'[e] # NoForm
    BY <1>3
  <2> QED BY <1>2, <2>1, <2>3, <2>4 DEF PolicyTypeOK
<1>5. NotYetMeant'
  BY <1>1, <1>2 DEF NotYetMeant, Editors
<1>6. EntriesAreMeant'
  <2> SUFFICES ASSUME NEW d \in Editors, current[d], held'[d] # NoForm
               PROVE  /\ Differ(policy, held'[d]) \subseteq means'[d]
                      /\ d \in Pages => means'[d] = Differ(policy, held'[d])
    BY <1>2 DEF EntriesAreMeant
  <2>1. CASE d # e
    BY <1>2, <2>1 DEF EntriesAreMeant
  <2>2. CASE d = e
    <3>1. means[e] = Differ(policy, held[e])
      BY <1>1, <2>2, EditAssumption DEF EntriesAreMeant
    <3>2. Differ(policy, held'[e]) = Toggle(Differ(policy, held[e]), s)
      BY <1>3 DEF Differ, Toggle
    <3> QED BY <1>2, <2>2, <3>1, <3>2
  <2> QED BY <2>1, <2>2
<1>7. FlagIsMeant'
  BY <1>1, <1>2, <1>3 DEF FlagIsMeant, Editors
<1> QED BY <1>4, <1>5, <1>6, <1>7

LEMMA ToggleNodeKeeps ==
  ASSUME PolicyIInv, NEW e \in Editors, PageTogglesNode(e)
  PROVE  PolicyIInv'
<1> USE EditAssumption DEF PolicyIInv
<1>1. e \in Pages /\ held[e] \in PolicyRow /\ held[e] # NoForm
  BY DEF PageTogglesNode, PolicyTypeOK
<1>2. /\ policy' = policy /\ current' = current /\ means' = means /\ ready' = ready
      /\ \A d \in Editors : d # e => held'[d] = held[d] /\ flips'[d] = flips[d]
      /\ held'[e] = [held[e] EXCEPT !.node = ~held[e].node]
  BY DEF PageTogglesNode, PolicyTypeOK
<1>3. flips'[e] <=> ~flips[e]
  BY DEF PageTogglesNode, PolicyTypeOK
<1>4. /\ held'[e] \in PolicyRow
      /\ held'[e].subjects = held[e].subjects
      /\ held'[e].node # held[e].node
  BY <1>1, <1>2 DEF PolicyRow
<1>5. PolicyTypeOK'
  <2>1. held' \in [Editors -> PolicyRow \union {NoForm}]
    BY <1>2, <1>4 DEF PageTogglesNode, PolicyTypeOK
  <2>2. flips' \in [Editors -> BOOLEAN]
    BY DEF PageTogglesNode, PolicyTypeOK
  <2>3. held'[e] # NoForm
    BY <1>4
  <2> QED BY <1>2, <2>1, <2>2, <2>3 DEF PolicyTypeOK
<1>6. NotYetMeant'
  BY <1>2 DEF NotYetMeant
<1>7. EntriesAreMeant'
  BY <1>1, <1>2, <1>4 DEF EntriesAreMeant, Differ
<1>8. FlagIsMeant'
  <2> SUFFICES ASSUME NEW d \in Pages, current[d], held'[d] # NoForm
               PROVE  policy.node # held'[d].node <=> flips'[d]
    BY <1>2 DEF FlagIsMeant
  <2>1. CASE d # e
    BY <1>2, <2>1 DEF FlagIsMeant, Editors
  <2>2. CASE d = e
    <3>1. policy.node # held[e].node <=> flips[e]
      BY <1>1, <2>2 DEF FlagIsMeant
    <3>2. policy.node \in BOOLEAN /\ held[e].node \in BOOLEAN /\ held'[e].node \in BOOLEAN
      BY <1>1, <1>4 DEF PolicyTypeOK, PolicyRow
    <3>3. policy.node # held'[e].node <=> ~(policy.node # held[e].node)
      BY <1>4, <3>2
    <3> QED BY <2>2, <3>1, <3>3, <1>3
  <2> QED BY <2>1, <2>2
<1> QED BY <1>5, <1>6, <1>7, <1>8

LEMMA LeaveKeeps ==
  ASSUME PolicyIInv, NEW e \in Editors, LeavesPolicy(e)
  PROVE  PolicyIInv'
<1>1. /\ policy' = policy /\ Holds(e, NoForm) /\ current' \in [Editors -> BOOLEAN]
      /\ \A d \in Editors : d # e => current'[d] = current[d]
  BY DEF LeavesPolicy, PolicyIInv, PolicyTypeOK
<1> QED BY <1>1, LoadKeeps DEF PolicyIInv, PolicyTypeOK

LEMMA PolicyReadKeeps ==
  ASSUME PolicyIInv, NEW e \in Editors, CommandReads(e) \/ PageLoads(e)
  PROVE  PolicyIInv'
<1>1. /\ policy' = policy /\ policy \in PolicyRow /\ current' \in [Editors -> BOOLEAN]
      /\ \A d \in Editors : d # e => current'[d] = current[d]
  BY DEF CommandReads, PageLoads, PolicyIInv, PolicyTypeOK
<1>2. CASE CommandReads(e)
  BY <1>1, <1>2, LoadKeeps, WireKeepsRows, EditAssumption DEF CommandReads
<1>3. CASE PageLoads(e)
  BY <1>1, <1>3, LoadKeeps DEF PageLoads
<1> QED BY <1>2, <1>3

LEMMA PolicyWriteKeeps ==
  ASSUME PolicyIInv, NEW e \in Editors, CommandWrites(e) \/ PageSaves(e)
  PROVE  PolicyIInv'
<1>1. held[e] # NoForm
  BY DEF CommandWrites, PageSaves, PolicyIInv, PolicyTypeOK
<1>2. held[e] \in PolicyRow
  BY <1>1 DEF PolicyIInv, PolicyTypeOK
<1>3. /\ current' \in [Editors -> BOOLEAN]
      /\ \A d \in Editors : current'[d] => d = e
  BY DEF CommandWrites, PageSaves, Stores
<1>4. CASE CommandWrites(e)
  BY <1>2, <1>3, <1>4, LoadKeeps, WireKeepsRows DEF CommandWrites, Stores
<1>5. CASE PageSaves(e)
  BY <1>2, <1>3, <1>5, LoadKeeps DEF PageSaves, Stores
<1> QED BY <1>4, <1>5

LEMMA PolicyStepHolds == PolicyIInv /\ [PolicyNext]_policyVars => PolicyIInv'
<1> SUFFICES ASSUME PolicyIInv, [PolicyNext]_policyVars PROVE PolicyIInv'
  OBVIOUS
<1>1. CASE UNCHANGED policyVars
  BY <1>1 DEF policyVars, PolicyIInv, PolicyTypeOK, NotYetMeant, EntriesAreMeant, FlagIsMeant
<1>2. CASE PolicyNext
  BY <1>2, PolicyReadKeeps, PolicyWriteKeeps, LeaveKeeps, ApplyKeeps, ToggleKeeps, ToggleNodeKeeps DEF PolicyNext
<1> QED BY <1>1, <1>2

LEMMA PolicyInductive == PolicySpec => []PolicyIInv
BY PolicyInitHolds, PolicyStepHolds, PTL DEF PolicySpec

-----------------------------------------------------------------------------
\* The policy and the forms are policies, and who has no form has meant nothing.
THEOREM PolicyTypeCorrect == PolicySpec => []PolicyTypeOK
<1>1. PolicyIInv => PolicyTypeOK
  BY DEF PolicyIInv
<1> QED BY <1>1, PolicyInductive, PTL

\* Whoever else is at the policy: an editor that stores a form nobody overtook
\* adds and removes only the entries it meant to, and a page changes the flag
\* exactly when somebody clicked it.
THEOREM FreshStoresAreExact == PolicySpec => FreshPolicyWrites
<1>1. ASSUME PolicyIInv, [PolicyNext]_policyVars, NEW e \in Editors, Changed(e), current[e]
      PROVE  /\ Differ(policy, policy') \subseteq means[e]
             /\ e \in Pages => (policy.node # policy'.node <=> flips[e])
  \* Only the editor's own write changes the table and looks like it.
  <2>1. (CommandWrites(e) /\ e \in Commands) \/ (PageSaves(e) /\ e \in Pages)
    <3>1. policy' # policy /\ PolicyNext
      BY <1>1 DEF Changed, policyVars
    <3>2. PICK d \in Editors : CommandWrites(d) \/ PageSaves(d)
      BY <3>1 DEF PolicyNext, CommandReads, PageLoads, PageTogglesNode, LeavesPolicy, PageToggles, CommandChanges
    <3>3. d = e
      <4>1. CASE e \in Commands
        BY <1>1, <3>2, <4>1 DEF Changed, CommandWrites, PageSaves, Holds, PolicyIInv, PolicyTypeOK
      <4>2. CASE e \notin Commands
        BY <1>1, <3>2, <4>2 DEF Changed, CommandWrites, PageSaves, Stores
      <4> QED BY <4>1, <4>2
    <3> QED BY <3>2, <3>3 DEF CommandWrites, PageSaves
  <2>2. held[e] # NoForm
    BY <1>1, <2>1 DEF CommandWrites, PageSaves, PolicyIInv, PolicyTypeOK
  <2>3. held[e] \in PolicyRow
    BY <1>1, <2>2 DEF PolicyIInv, PolicyTypeOK
  <2>4. policy'.subjects = held[e].subjects
    BY <2>1, <2>3, WireKeepsRows DEF CommandWrites, PageSaves, Stores
  <2>5. Differ(policy, policy') \subseteq means[e]
    BY <1>1, <2>2, <2>4 DEF PolicyIInv, EntriesAreMeant, Differ
  <2>6. ASSUME e \in Pages PROVE policy.node # policy'.node <=> flips[e]
    <3>1. policy' = held[e]
      BY <2>1, <2>6, EditAssumption DEF PageSaves, Stores
    <3> QED BY <1>1, <2>2, <2>6, <3>1 DEF PolicyIInv, FlagIsMeant
  <2> QED BY <2>5, <2>6
<1>2. ASSUME PolicyIInv, [PolicyNext]_policyVars
      PROVE  [ \A e \in Editors : Changed(e) /\ current[e] =>
                 /\ Differ(policy, policy') \subseteq means[e]
                 /\ e \in Pages => (policy.node # policy'.node <=> flips[e]) ]_policyVars
  BY <1>1, <1>2
<1> QED BY <1>2, PolicyInductive, PTL DEF PolicySpec, FreshPolicyWrites
=============================================================================
