-------------------------- MODULE Inventory_proofs --------------------------
(***************************************************************************)
(* Proofs about Inventory, for any hosts, guests, subjects, drivers and    *)
(* bounds: the tables are well-typed, a rule never reaches anything but    *)
(* what the administrator meant, no rule is left on a deleted row,         *)
(* discovery costs no stored guest its grants; one pass at a time stores   *)
(* one row per guest; and a quiet inventory converges on what is running.  *)
(*                                                                         *)
(* GrantsReachOnlyTheirTarget is not inductive. A rule may name a row that *)
(* is gone, so the invariant follows every row ever shown, not only those  *)
(* still stored: their ids are all below the sequence and never shared,    *)
(* and each rule names one of them which its subject was meant to reach.   *)
(***************************************************************************)
EXTENDS Inventory, TLAPS

\* Every stored row has been shown, and a shown id names one row for ever.
RowsShown ==
  /\ guests \subseteq shown
  /\ \A g \in shown : g.id < nextGuest
  /\ \A g1, g2 \in shown : g1.id = g2.id => g1 = g2

\* Every guest rule names a row that was shown and meant.
RulesMeant ==
  \A r \in rules : \E g \in shown :
    g.id = r.guest /\ [subject |-> r.subject, row |-> g] \in intent

\* An instance id has a host from the moment it is handed out.
InstancesHosted ==
  /\ nextInstance >= 1
  /\ \A i \in InstanceIds : hostOf[i] # NoHost <=> i < nextInstance
  /\ \A i \in instances : hostOf[i] # NoHost
  /\ \A p \in Passes : pc[p] # "idle" => hostOf[p[2]] # NoHost

\* Every node rule names an instance that has, or had, the host meant.
NodeRulesMeant ==
  \A r \in nodeRules :
    /\ hostOf[r.inst] # NoHost
    /\ [subject |-> r.subject, inst |-> r.inst, host |-> hostOf[r.inst]]
         \in nodeIntent

IInv == TypeOK /\ RowsShown /\ RulesMeant /\ InstancesHosted /\ NodeRulesMeant

-----------------------------------------------------------------------------
(* Lemmas.                                                                   *)

\* A pass belongs to a driver and an instance id.
LEMMA PassParts ==
  ASSUME NEW p \in Passes
  PROVE  p[1] \in Drivers /\ p[2] \in InstanceIds
BY DEF Passes

\* The value a goroutine's cur starts from is some vmid.
LEMMA SomeVmid == (CHOOSE v \in Vmids : TRUE) \in Vmids
BY InventoryAssumption

\* A step of a pass that touches no table preserves the invariant, provided
\* the pass variables stay typed and no pass appears on an id with no host.
LEMMA TablesUntouched ==
  ASSUME IInv, TypeOK',
         UNCHANGED <<dbVars, histVars>>,
         \A p \in Passes : pc'[p] # "idle" => pc[p] # "idle" \/ p[2] \in instances
  PROVE  IInv'
<1>1. RowsShown'
  BY DEF IInv, RowsShown, dbVars, histVars
<1>2. RulesMeant'
  BY DEF IInv, RulesMeant, dbVars, histVars
<1>3. InstancesHosted'
  BY DEF IInv, InstancesHosted, dbVars, histVars
<1>4. NodeRulesMeant'
  BY DEF IInv, NodeRulesMeant, dbVars, histVars
<1> QED
  BY <1>1, <1>2, <1>3, <1>4 DEF IInv

\* What the end of a pass leaves is typed.
LEMMA PassEndsTyped ==
  ASSUME TypeOK, NEW p \in Passes, PassEnds(p)
  PROVE  /\ pc' \in [Passes -> {"idle", "lxc", "qemu", "store", "write"}]
         /\ listed' \in [Passes -> SUBSET Vmids]
         /\ todo' \in [Passes -> SUBSET Vmids]
         /\ live' \in [Passes -> SUBSET Vmids]
         /\ cur' \in [Passes -> Vmids]
         /\ hit' \in [Passes -> Nat]
         /\ \A q \in Passes : pc'[q] # "idle" => pc[q] # "idle"
BY SomeVmid DEF TypeOK, PassEnds

\* So is what moving on to the next guest leaves.
LEMMA NextGuestTyped ==
  ASSUME TypeOK, NEW p \in Passes, NextGuestOf(p), pc[p] # "idle"
  PROVE  /\ pc' \in [Passes -> {"idle", "lxc", "qemu", "store", "write"}]
         /\ listed' \in [Passes -> SUBSET Vmids]
         /\ todo' \in [Passes -> SUBSET Vmids]
         /\ live' \in [Passes -> SUBSET Vmids]
         /\ cur' \in [Passes -> Vmids]
         /\ hit' \in [Passes -> Nat]
         /\ \A q \in Passes : pc'[q] # "idle" => pc[q] # "idle"
BY SomeVmid DEF TypeOK, NextGuestOf

\* The invariant holds when serve starts.
LEMMA InitIInv == Init => IInv
<1> SUFFICES ASSUME Init PROVE IInv
  OBVIOUS
<1> USE InventoryAssumption
<1>1. Len(Registered) \in Nat /\ \A i \in 1..Len(Registered) : Registered[i] \in Hosts
  OBVIOUS
<1>2. TypeOK
  <2>1. hostOf \in [InstanceIds -> Hosts \union {NoHost}]
    BY <1>1 DEF Init, InstanceIds
  <2>2. cur \in [Passes -> Vmids]
    BY SomeVmid DEF Init
  <2> QED
    BY <1>1, <2>1, <2>2 DEF TypeOK, Init, InstanceIds
<1>3. RowsShown /\ RulesMeant /\ NodeRulesMeant
  BY DEF RowsShown, RulesMeant, NodeRulesMeant, Init
<1>4. InstancesHosted
  BY <1>1 DEF InstancesHosted, Init, InstanceIds
<1> QED
  BY <1>2, <1>3, <1>4 DEF IInv

-----------------------------------------------------------------------------
(* Every step preserves the invariant: one lemma for the steps that touch no *)
(* table, one for each action that does.                                     *)

LEMMA QuietStep ==
  ASSUME IInv,
         \/ \E d \in Drivers : StartRound(d) \/ \E i \in InstanceIds : StartOne(d, i)
         \/ \E p \in Passes :
              \/ ListContainers(p) \/ ListVMs(p) \/ \E v \in Vmids : SelectGuest(p, v)
              \/ UpdateGuest(p) \/ UpsertFails(p) \/ PassFails(p)
         \/ \E h \in Hosts, v \in Vmids : HostChanges(h, v)
         \/ Crash
  PROVE  IInv'
<1> USE DEF IInv, dbVars, worldVars, passVars, histVars
<1>1. ASSUME NEW d \in Drivers, StartRound(d) PROVE IInv'
  <2>1. TypeOK' /\ UNCHANGED <<dbVars, histVars>>
    BY <1>1 DEF StartRound, TypeOK
  <2> QED
    BY <1>1, <2>1, TablesUntouched DEF StartRound, TypeOK
<1>2. ASSUME NEW d \in Drivers, NEW i \in InstanceIds, StartOne(d, i) PROVE IInv'
  <2>1. TypeOK' /\ UNCHANGED <<dbVars, histVars>>
    BY <1>2 DEF StartOne, TypeOK
  <2>2. \A q \in Passes : pc'[q] # "idle" => pc[q] # "idle" \/ q[2] \in instances
    BY <1>2 DEF StartOne, TypeOK, Passes
  <2> QED
    BY <2>1, <2>2, TablesUntouched
<1>3. ASSUME NEW p \in Passes, ListContainers(p) PROVE IInv'
  <2>1. TypeOK' /\ UNCHANGED <<dbVars, histVars>>
    BY <1>3, InventoryAssumption DEF ListContainers, TypeOK
  <2> QED
    BY <1>3, <2>1, TablesUntouched DEF ListContainers, TypeOK
<1>4. ASSUME NEW p \in Passes, ListVMs(p) PROVE IInv'
  <2>1. hostOf[p[2]] \in Hosts
    BY <1>4, PassParts DEF ListVMs, TypeOK, InstancesHosted
  <2>2. listed[p] \union (running[hostOf[p[2]]] \ Containers) \subseteq Vmids
    BY <2>1 DEF TypeOK
  <2>3. TypeOK' /\ UNCHANGED <<dbVars, histVars>>
    BY <1>4, <2>2 DEF ListVMs, TypeOK
  <2> QED
    BY <1>4, <2>3, TablesUntouched DEF ListVMs, TypeOK
<1>5. ASSUME NEW p \in Passes, NEW v \in Vmids, SelectGuest(p, v) PROVE IInv'
  <2>1. hit' \in [Passes -> Nat]
    BY <1>5 DEF SelectGuest, GuestsOf, TypeOK, Guest
  <2>2. TypeOK' /\ UNCHANGED <<dbVars, histVars>>
    BY <1>5, <2>1 DEF SelectGuest, TypeOK
  <2> QED
    BY <1>5, <2>2, TablesUntouched DEF SelectGuest, TypeOK
<1>6. ASSUME NEW p \in Passes, UpdateGuest(p) PROVE IInv'
  <2>1. TypeOK' /\ UNCHANGED <<dbVars, histVars>>
    BY <1>6, NextGuestTyped DEF UpdateGuest, TypeOK
  <2> QED
    BY <1>6, <2>1, NextGuestTyped, TablesUntouched DEF UpdateGuest
<1>7. ASSUME NEW p \in Passes, UpsertFails(p) PROVE IInv'
  <2>1. TypeOK' /\ UNCHANGED <<dbVars, histVars>>
    BY <1>7, NextGuestTyped DEF UpsertFails, TypeOK
  <2> QED
    BY <1>7, <2>1, NextGuestTyped, TablesUntouched DEF UpsertFails
<1>8. ASSUME NEW p \in Passes, PassFails(p) PROVE IInv'
  <2>1. TypeOK' /\ UNCHANGED <<dbVars, histVars>>
    BY <1>8, PassEndsTyped DEF PassFails, TypeOK
  <2> QED
    BY <1>8, <2>1, PassEndsTyped, TablesUntouched DEF PassFails
<1>9. ASSUME NEW h \in Hosts, NEW v \in Vmids, HostChanges(h, v) PROVE IInv'
  <2>1. TypeOK' /\ UNCHANGED <<dbVars, histVars>>
    BY <1>9 DEF HostChanges, TypeOK
  <2> QED
    BY <1>9, <2>1, TablesUntouched DEF HostChanges
<1>10. CASE Crash
  <2>1. TypeOK' /\ UNCHANGED <<dbVars, histVars>>
    BY <1>10, SomeVmid DEF Crash, TypeOK
  <2> QED
    BY <1>10, <2>1, TablesUntouched DEF Crash
<1> QED
  BY <1>1, <1>2, <1>3, <1>4, <1>5, <1>6, <1>7, <1>8, <1>9, <1>10

LEMMA InsertGuestStep ==
  ASSUME IInv, NEW p \in Passes, InsertGuest(p)
  PROVE  IInv'
<1> DEFINE row == [id |-> nextGuest, inst |-> p[2], vmid |-> cur[p]]
<1>1. row \in Guest /\ nextGuest \in Nat
  BY PassParts DEF IInv, TypeOK, Guest
<1>2. /\ guests' = guests \union {row} /\ shown' = shown \union {row}
      /\ nextGuest' = nextGuest + 1
      /\ UNCHANGED <<instances, hostOf, nextInstance, rules, nodeRules, running,
                     budget, intent, nodeIntent>>
      /\ NextGuestOf(p) /\ pc[p] # "idle"
  BY DEF InsertGuest, FreshGuestId, worldVars
<1>3. TypeOK'
  <2> HIDE DEF row
  <2> QED
    BY <1>1, <1>2, NextGuestTyped DEF IInv, TypeOK
<1>4. RowsShown'
  BY <1>1, <1>2 DEF IInv, RowsShown, TypeOK, Guest
<1>5. RulesMeant'
  BY <1>2 DEF IInv, RulesMeant
<1>6. InstancesHosted'
  BY <1>2, NextGuestTyped DEF IInv, InstancesHosted
<1>7. NodeRulesMeant'
  BY <1>2 DEF IInv, NodeRulesMeant
<1> QED
  BY <1>3, <1>4, <1>5, <1>6, <1>7 DEF IInv

LEMMA PruneStep ==
  ASSUME IInv, NEW p \in Passes, Prune(p)
  PROVE  IInv'
<1>1. /\ guests' \subseteq guests /\ rules' \subseteq rules
      /\ UNCHANGED <<instances, hostOf, nextInstance, nextGuest, nodeRules, running,
                     budget, shown, intent, nodeIntent>>
      /\ PassEnds(p)
  BY DEF Prune, worldVars, histVars
<1>2. TypeOK'
  BY <1>1, PassEndsTyped DEF IInv, TypeOK
<1>3. RowsShown' /\ RulesMeant' /\ NodeRulesMeant'
  BY <1>1 DEF IInv, RowsShown, RulesMeant, NodeRulesMeant
<1>4. InstancesHosted'
  BY <1>1, PassEndsTyped DEF IInv, InstancesHosted
<1> QED
  BY <1>2, <1>3, <1>4 DEF IInv

LEMMA AddInstanceStep ==
  ASSUME IInv, NEW d \in Drivers, NEW h \in Hosts, AddInstance(d, h)
  PROVE  IInv'
<1> DEFINE i == nextInstance
<1>1. /\ i \in InstanceIds /\ i \in Nat
      /\ instances' = instances \union {i} /\ hostOf' = [hostOf EXCEPT ![i] = h]
      /\ nextInstance' = i + 1 /\ pc' = [pc EXCEPT ![<<d, i>>] = "lxc"]
      /\ UNCHANGED <<guests, nextGuest, rules, nodeRules, running, budget, listed,
                     todo, live, cur, hit, shown, intent, nodeIntent>>
  BY InventoryAssumption
  DEF AddInstance, FreshInstanceId, IInv, TypeOK, InstancesHosted, InstanceIds,
      worldVars, histVars
<1>2. hostOf[i] = NoHost /\ h # NoHost
  BY <1>1, InventoryAssumption DEF IInv, InstancesHosted
<1>3. TypeOK'
  <2>1. hostOf' \in [InstanceIds -> Hosts \union {NoHost}]
    BY <1>1 DEF IInv, TypeOK
  <2>2. instances' \subseteq InstanceIds /\ nextInstance' \in Nat
    BY <1>1 DEF IInv, TypeOK
  <2>3. pc' \in [Passes -> {"idle", "lxc", "qemu", "store", "write"}]
    BY <1>1 DEF IInv, TypeOK
  <2> QED
    BY <1>1, <2>1, <2>2, <2>3 DEF IInv, TypeOK
<1>4. RowsShown' /\ RulesMeant'
  BY <1>1 DEF IInv, RowsShown, RulesMeant
<1>5. InstancesHosted'
  <2>1. i + 1 >= 1 /\ \A j \in InstanceIds : j < i + 1 <=> j < i \/ j = i
    BY <1>1 DEF InstanceIds
  <2>2. \A j \in InstanceIds : hostOf'[j] # NoHost <=> j < i \/ j = i
    BY <1>1, <1>2 DEF IInv, TypeOK, InstancesHosted
  <2>3. \A j \in instances' : hostOf'[j] # NoHost
    BY <1>1, <1>2 DEF IInv, TypeOK, InstancesHosted
  <2>4. \A q \in Passes : pc'[q] # "idle" => hostOf'[q[2]] # NoHost
    BY <1>1, <1>2, PassParts DEF IInv, TypeOK, InstancesHosted
  <2> QED
    BY <1>1, <2>1, <2>2, <2>3, <2>4 DEF InstancesHosted
<1>6. NodeRulesMeant'
  BY <1>1, <1>2 DEF IInv, TypeOK, NodeRulesMeant, NodeRule
<1> QED
  BY <1>3, <1>4, <1>5, <1>6 DEF IInv

LEMMA RemoveInstanceStep ==
  ASSUME IInv, NEW i \in InstanceIds, RemoveInstance(i)
  PROVE  IInv'
<1>1. /\ guests' \subseteq guests /\ rules' \subseteq rules
      /\ nodeRules' \subseteq nodeRules /\ instances' \subseteq instances
      /\ UNCHANGED <<hostOf, nextInstance, nextGuest, running, budget, pc, listed,
                     todo, live, cur, hit, shown, intent, nodeIntent>>
  BY DEF RemoveInstance, worldVars, passVars, histVars
<1>2. TypeOK'
  BY <1>1 DEF IInv, TypeOK
<1>3. RowsShown' /\ RulesMeant' /\ InstancesHosted' /\ NodeRulesMeant'
  BY <1>1 DEF IInv, RowsShown, RulesMeant, InstancesHosted, NodeRulesMeant
<1> QED
  BY <1>2, <1>3 DEF IInv

\* The rows granted were all shown, so each new rule has its intent.
LEMMA GrantStep ==
  ASSUME IInv, NEW s \in Subjects, NEW rows \in SUBSET shown, Grant(s, rows)
  PROVE  IInv'
<1>1. /\ rules' = rules \union {[subject |-> s, guest |-> g.id] : g \in rows}
      /\ intent' = intent \union {[subject |-> s, row |-> g] : g \in rows}
      /\ UNCHANGED <<instances, hostOf, nextInstance, guests, nextGuest, nodeRules,
                     running, budget, pc, listed, todo, live, cur, hit, shown, nodeIntent>>
  BY DEF Grant, worldVars, passVars
<1>2. TypeOK'
  <2>1. rules' \subseteq GuestRule
    BY <1>1 DEF IInv, TypeOK, GuestRule, Guest
  <2>2. intent' \subseteq [subject : Subjects, row : Guest]
    BY <1>1 DEF IInv, TypeOK
  <2> QED
    BY <1>1, <2>1, <2>2 DEF IInv, TypeOK
<1>3. RulesMeant'
  <2> SUFFICES ASSUME NEW r \in rules'
               PROVE  \E g \in shown :
                 g.id = r.guest /\ [subject |-> r.subject, row |-> g] \in intent'
    BY <1>1 DEF RulesMeant
  <2>1. CASE r \in rules
    BY <1>1, <2>1 DEF IInv, RulesMeant
  <2>2. ASSUME NEW g \in rows, r = [subject |-> s, guest |-> g.id]
        PROVE  g.id = r.guest /\ [subject |-> r.subject, row |-> g] \in intent'
    BY <1>1, <2>2
  <2> QED
    BY <1>1, <2>1, <2>2
<1>4. RowsShown' /\ InstancesHosted' /\ NodeRulesMeant'
  BY <1>1 DEF IInv, RowsShown, InstancesHosted, NodeRulesMeant
<1> QED
  BY <1>2, <1>3, <1>4 DEF IInv

LEMMA GrantNodeStep ==
  ASSUME IInv, NEW s \in Subjects, NEW i \in InstanceIds, GrantNode(s, i)
  PROVE  IInv'
<1> DEFINE meant == [subject |-> s, inst |-> i, host |-> hostOf[i]]
<1>1. /\ hostOf[i] # NoHost
      /\ nodeRules' = nodeRules \union {[subject |-> s, inst |-> i]}
      /\ nodeIntent' = nodeIntent \union {meant}
      /\ UNCHANGED <<instances, hostOf, nextInstance, guests, nextGuest, rules,
                     running, budget, pc, listed, todo, live, cur, hit, shown, intent>>
  BY DEF GrantNode, worldVars, passVars
<1>2. TypeOK'
  <2>1. meant \in [subject : Subjects, inst : InstanceIds, host : Hosts]
    BY <1>1 DEF IInv, TypeOK
  <2>2. nodeRules' \subseteq NodeRule
    BY <1>1 DEF IInv, TypeOK, NodeRule
  <2> QED
    BY <1>1, <2>1, <2>2 DEF IInv, TypeOK
<1>3. NodeRulesMeant'
  BY <1>1 DEF IInv, NodeRulesMeant
<1>4. RowsShown' /\ RulesMeant' /\ InstancesHosted'
  BY <1>1 DEF IInv, RowsShown, RulesMeant, InstancesHosted
<1> QED
  BY <1>2, <1>3, <1>4 DEF IInv

LEMMA RevokeStep ==
  ASSUME IInv, (\E r \in rules : Revoke(r)) \/ (\E r \in nodeRules : RevokeNode(r))
  PROVE  IInv'
<1>1. /\ rules' \subseteq rules /\ nodeRules' \subseteq nodeRules
      /\ UNCHANGED <<instances, hostOf, nextInstance, guests, nextGuest, running,
                     budget, pc, listed, todo, live, cur, hit, shown, intent, nodeIntent>>
  BY DEF Revoke, RevokeNode, worldVars, passVars, histVars
<1>2. TypeOK'
  BY <1>1 DEF IInv, TypeOK
<1>3. RowsShown' /\ RulesMeant' /\ InstancesHosted' /\ NodeRulesMeant'
  BY <1>1 DEF IInv, RowsShown, RulesMeant, InstancesHosted, NodeRulesMeant
<1> QED
  BY <1>2, <1>3 DEF IInv

LEMMA NextIInv == IInv /\ [Next]_vars => IInv'
<1> SUFFICES ASSUME IInv, [Next]_vars PROVE IInv'
  OBVIOUS
<1>1. CASE Discovery
  BY <1>1, QuietStep, InsertGuestStep, PruneStep DEF Discovery, PassStep
<1>2. CASE Administration
  BY <1>2, AddInstanceStep, RemoveInstanceStep, GrantStep, GrantNodeStep, RevokeStep
  DEF Administration
<1>3. CASE World
  BY <1>3, QuietStep DEF World
<1>4. CASE UNCHANGED vars
  BY <1>4 DEF vars, dbVars, worldVars, passVars, histVars, IInv, TypeOK, RowsShown,
     RulesMeant, InstancesHosted, NodeRulesMeant
<1> QED
  BY <1>1, <1>2, <1>3, <1>4 DEF Next

LEMMA SpecIInv == Spec => []IInv
<1>1. Init => IInv
  BY InitIInv
<1>2. IInv /\ [Next]_vars => IInv'
  BY NextIInv
<1> QED
  BY <1>1, <1>2, PTL DEF Spec

-----------------------------------------------------------------------------
(* The theorems.                                                             *)

\* Every variable keeps its type, whatever passes and administrators do.
THEOREM TypeCorrect == Spec => []TypeOK
<1>1. IInv => TypeOK
  BY DEF IInv
<1> QED
  BY <1>1, SpecIInv, PTL

\* A rule never reaches a guest or a node its administrator did not mean: ids
\* are not reused, so a rule written for a deleted row stays without effect.
THEOREM GrantsAreMeant == Spec => []GrantsReachOnlyTheirTarget
<1>1. IInv => GrantsReachOnlyTheirTarget
  <2> SUFFICES ASSUME IInv PROVE GrantsReachOnlyTheirTarget
    OBVIOUS
  <2>1. ASSUME NEW r \in rules, NEW g \in guests, g.id = r.guest
        PROVE  [subject |-> r.subject, row |-> g] \in intent
    <3>1. PICK f \in shown : /\ f.id = r.guest
                            /\ [subject |-> r.subject, row |-> f] \in intent
      BY DEF IInv, RulesMeant
    <3>2. f = g
      BY <2>1, <3>1 DEF IInv, RowsShown
    <3> QED
      BY <3>1, <3>2
  <2>2. ASSUME NEW r \in nodeRules
        PROVE  [subject |-> r.subject, inst |-> r.inst, host |-> hostOf[r.inst]]
                 \in nodeIntent
    BY DEF IInv, NodeRulesMeant
  <2> QED
    BY <2>1, <2>2 DEF GrantsReachOnlyTheirTarget
<1> QED
  BY <1>1, SpecIInv, PTL

\* Only a prune and the removal of an instance delete guests or instances:
\* what every other step does to the two tables.
LEMMA OnlyTwoDelete ==
  ASSUME [Next]_vars,
         \A p \in Passes : ~Prune(p),
         \A i \in InstanceIds : ~RemoveInstance(i)
  PROVE  guests \subseteq guests' /\ instances \subseteq instances'
<1> USE DEF dbVars
<1>1. CASE Discovery
  BY <1>1 DEF Discovery, PassStep, StartRound, StartOne, ListContainers, ListVMs,
     SelectGuest, InsertGuest, UpdateGuest, UpsertFails, PassFails
<1>2. CASE Administration
  BY <1>2 DEF Administration, AddInstance, Grant, Revoke, GrantNode, RevokeNode
<1>3. CASE World
  BY <1>3 DEF World, HostChanges, Crash
<1>4. CASE UNCHANGED vars
  BY <1>4 DEF vars
<1> QED
  BY <1>1, <1>2, <1>3, <1>4 DEF Next

\* Nothing deletes a guest or an instance without the rules that name it.
THEOREM NoDanglingRules == Spec => NoRuleOutlivesItsTarget
<1> DEFINE Clean ==
      /\ \A g \in guests \ guests' : \A r \in rules' : r.guest # g.id
      /\ \A i \in instances \ instances' :
           /\ \A r \in nodeRules' : r.inst # i
           /\ \A g \in guests' : g.inst # i
<1>1. [Next]_vars => [Clean]_vars
  <2> SUFFICES ASSUME [Next]_vars PROVE Clean
    OBVIOUS
  <2>1. ASSUME NEW p \in Passes, Prune(p) PROVE Clean
    BY <2>1 DEF Prune, GuestsOf, RulesOn
  <2>2. ASSUME NEW i \in InstanceIds, RemoveInstance(i) PROVE Clean
    BY <2>2 DEF RemoveInstance, GuestsOf, RulesOn
  <2> QED
    BY <2>1, <2>2, OnlyTwoDelete
<1> QED
  BY <1>1, PTL DEF Spec, NoRuleOutlivesItsTarget

\* No step of discovery costs a stored guest one of its rules: the rules a
\* prune deletes name rows it deletes, and no other row shares their ids.
THEOREM DiscoveryKeepsGrants == Spec => GrantsSurviveDiscovery
<1> DEFINE Kept ==
      (\E r \in rules \ rules', g \in guests' : g.id = r.guest) => ~Discovery
<1>1. IInv /\ [Next]_vars => [Kept]_vars
  <2> SUFFICES ASSUME IInv, Discovery PROVE Kept
    OBVIOUS
  <2>1. ASSUME NEW p \in Passes, Prune(p) PROVE Kept
    <3> SUFFICES ASSUME NEW r \in rules \ rules', NEW g \in guests'
                 PROVE  g.id # r.guest
      OBVIOUS
    <3>1. PICK f \in guests \ guests' : f.id = r.guest
      BY <2>1 DEF Prune, GuestsOf, RulesOn
    <3>2. g \in guests /\ g # f
      BY <2>1, <3>1 DEF Prune
    <3> QED
      BY <3>1, <3>2 DEF IInv, RowsShown
  <2>2. CASE \A p \in Passes : ~Prune(p)
    BY <2>2 DEF Discovery, PassStep, StartRound, StartOne, ListContainers, ListVMs,
       SelectGuest, InsertGuest, UpdateGuest, UpsertFails, PassFails, dbVars
  <2> QED
    BY <2>1, <2>2
<1> QED
  BY <1>1, SpecIInv, PTL DEF Spec, GrantsSurviveDiscovery

\* What a pass was told is running, it has stored or will store.
Accounted ==
  \A p \in Passes : pc[p] \in {"store", "write"} => listed[p] \subseteq live[p] \union todo[p]

LEMMA SpecAccounted == Spec => []Accounted
<1>1. Init => Accounted
  BY DEF Init, Accounted
<1>2. IInv /\ Accounted /\ [Next]_vars => Accounted'
  <2> SUFFICES ASSUME IInv, Accounted, [Next]_vars PROVE Accounted'
    OBVIOUS
  <2> USE DEF Accounted, IInv, TypeOK
  <2>1. CASE Administration
    BY <2>1 DEF Administration, AddInstance, RemoveInstance, Grant, Revoke,
       GrantNode, RevokeNode, passVars
  <2>2. CASE World
    BY <2>2 DEF World, HostChanges, Crash, passVars
  <2>3. ASSUME NEW d \in Drivers,
               StartRound(d) \/ \E i \in InstanceIds : StartOne(d, i)
        PROVE  Accounted'
    BY <2>3 DEF StartRound, StartOne
  <2>4. ASSUME NEW p \in Passes,
               ListContainers(p) \/ ListVMs(p) \/ \E v \in Vmids : SelectGuest(p, v)
        PROVE  Accounted'
    BY <2>4 DEF ListContainers, ListVMs, SelectGuest
  <2>5. ASSUME NEW p \in Passes, InsertGuest(p) \/ UpdateGuest(p) \/ UpsertFails(p)
        PROVE  Accounted'
    BY <2>5 DEF InsertGuest, UpdateGuest, UpsertFails, NextGuestOf
  <2>6. ASSUME NEW p \in Passes, Prune(p) \/ PassFails(p)
        PROVE  Accounted'
    BY <2>6 DEF Prune, PassFails, PassEnds
  <2>7. CASE UNCHANGED vars
    BY <2>7 DEF vars, passVars
  <2> QED
    BY <2>1, <2>2, <2>3, <2>4, <2>5, <2>6, <2>7 DEF Next, Discovery, PassStep
<1> QED
  BY <1>1, <1>2, SpecIInv, PTL DEF Spec

\* A pass that deletes a guest was told the guest does not run, and it deletes
\* guests of its own instance only.
THEOREM PrunesAreListed == Spec => PrunesOnlyUnlisted
<1> DEFINE Listed == \A g \in guests \ guests' :
        \/ g.inst \notin instances'
        \/ \E p \in Passes : /\ p[2] = g.inst
                             /\ pc[p] = "store" /\ pc'[p] = "idle"
                             /\ g.vmid \notin listed[p]
<1>1. IInv /\ Accounted /\ [Next]_vars => [Listed]_vars
  <2> SUFFICES ASSUME IInv, Accounted, [Next]_vars PROVE Listed
    OBVIOUS
  <2>1. ASSUME NEW p \in Passes, Prune(p) PROVE Listed
    BY <2>1 DEF Prune, PassEnds, GuestsOf, Accounted, IInv, TypeOK
  <2>2. ASSUME NEW i \in InstanceIds, RemoveInstance(i) PROVE Listed
    BY <2>2 DEF RemoveInstance, GuestsOf
  <2> QED
    BY <2>1, <2>2, OnlyTwoDelete
<1> QED
  BY <1>1, SpecIInv, SpecAccounted, PTL DEF Spec, PrunesOnlyUnlisted

-----------------------------------------------------------------------------
(* One row per guest. Nothing in the schema keeps two rows of guests from    *)
(* holding the same guest of an instance, and two overlapping passes do      *)
(* store two; one pass at a time on each instance stores one.                *)

\* No two passes are at work on the same instance.
NoOverlap ==
  \A p, q \in Passes : p[2] = q[2] /\ pc[p] # "idle" /\ pc[q] # "idle" => p = q

\* A pass about to insert a guest has seen that there is no row of it, and none
\* has come since.
StillVacant ==
  \A p \in Passes : pc[p] = "write" /\ hit[p] = 0
    => \A g \in guests : ~(g.inst = p[2] /\ g.vmid = cur[p])

\* No row has the id 0, by which a pass knows that it found none.
Numbered == nextGuest >= 1 /\ \A g \in guests : g.id # 0

\* As long as no two passes overlap on an instance there is one row per guest:
\* UpsertGuest's SELECT-then-INSERT is right for a pass alone, whatever crashes,
\* fails, or is granted and removed meanwhile.
THEOREM OneAtATimeIsEnough == Spec /\ []NoOverlap => []OneRowPerGuest
<1> DEFINE Inv == OneRowPerGuest /\ StillVacant /\ Numbered
<1>1. Init => Inv
  BY DEF Init, OneRowPerGuest, StillVacant, Numbered
<1>2. IInv /\ NoOverlap /\ Inv /\ [Next]_vars => Inv'
  <2> SUFFICES ASSUME IInv, NoOverlap, Inv, [Next]_vars PROVE Inv'
    OBVIOUS
  <2> USE DEF OneRowPerGuest, StillVacant, Numbered
  <2>0. TypeOK /\ RowsShown
    BY DEF IInv
  <2>1. ASSUME UNCHANGED <<guests, nextGuest, pc, cur, hit>> PROVE Inv'
    BY <2>1
  <2>2. CASE Administration
    <3>1. ASSUME NEW i \in InstanceIds, RemoveInstance(i) PROVE Inv'
      BY <3>1 DEF RemoveInstance, passVars
    <3>2. ASSUME NEW d \in Drivers, NEW h \in Hosts, AddInstance(d, h) PROVE Inv'
      BY <2>0, <3>2 DEF AddInstance, TypeOK
    <3>3. CASE \/ \E s \in Subjects, rows \in SUBSET shown : Grant(s, rows)
               \/ \E r \in rules : Revoke(r)
               \/ \E s \in Subjects, i \in InstanceIds : GrantNode(s, i)
               \/ \E r \in nodeRules : RevokeNode(r)
      BY <2>1, <3>3 DEF Grant, Revoke, GrantNode, RevokeNode, passVars
    <3> QED BY <2>2, <3>1, <3>2, <3>3 DEF Administration
  <2>3. CASE World
    BY <2>0, <2>3 DEF World, HostChanges, Crash, dbVars, passVars, TypeOK
  <2>4. ASSUME NEW d \in Drivers,
               StartRound(d) \/ \E i \in InstanceIds : StartOne(d, i)
        PROVE  Inv'
    BY <2>0, <2>4 DEF StartRound, StartOne, dbVars, TypeOK
  <2>5. ASSUME NEW p \in Passes, ListContainers(p) \/ ListVMs(p)
        PROVE  Inv'
    BY <2>0, <2>5 DEF ListContainers, ListVMs, dbVars, TypeOK
  <2>6. ASSUME NEW p \in Passes, NEW v \in Vmids, SelectGuest(p, v)
        PROVE  Inv'
    <3>2. guests' = guests /\ nextGuest' = nextGuest /\ \A q \in Passes : q # p => pc'[q] = pc[q] /\ hit'[q] = hit[q] /\ cur'[q] = cur[q]
      BY <2>0, <2>6 DEF SelectGuest, dbVars, TypeOK
    <3>3. cur'[p] = v /\ (hit'[p] = 0 => \A g \in guests : ~(g.inst = p[2] /\ g.vmid = v))
      BY <2>0, <2>6 DEF SelectGuest, GuestsOf, TypeOK
    <3> QED BY <3>2, <3>3
  <2>7. ASSUME NEW p \in Passes, UpdateGuest(p) \/ UpsertFails(p)
        PROVE  Inv'
    BY <2>0, <2>7 DEF UpdateGuest, UpsertFails, NextGuestOf, dbVars, TypeOK
  <2>8. ASSUME NEW p \in Passes, InsertGuest(p) PROVE Inv'
    <3> DEFINE row == [id |-> nextGuest, inst |-> p[2], vmid |-> cur[p]]
    <3>1. /\ pc[p] = "write" /\ hit[p] = 0 /\ guests' = guests \union {row}
          /\ nextGuest' = nextGuest + 1 /\ nextGuest \in Nat
          /\ pc'[p] = "store"
          /\ \A q \in Passes : q # p => pc'[q] = pc[q] /\ hit'[q] = hit[q] /\ cur'[q] = cur[q]
      BY <2>0, <2>8 DEF InsertGuest, NextGuestOf, FreshGuestId, TypeOK
    <3>2. \A q \in Passes : q # p /\ pc[q] # "idle" => q[2] # p[2]
      BY <3>1 DEF NoOverlap
    <3> QED BY <3>1, <3>2
  <2>9. ASSUME NEW p \in Passes, Prune(p) \/ PassFails(p)
        PROVE  Inv'
    BY <2>0, <2>9 DEF Prune, PassFails, PassEnds, dbVars, TypeOK
  <2>10. CASE UNCHANGED vars
    BY <2>1, <2>10 DEF vars, passVars, dbVars
  <2> QED
    BY <2>2, <2>3, <2>4, <2>5, <2>6, <2>7, <2>8, <2>9, <2>10 DEF Next, Discovery, PassStep
<1> QED
  BY <1>1, <1>2, SpecIInv, PTL DEF Spec

\* A single driver, which waits for its passes before it starts others, does not
\* overlap with itself.
LEMMA OneDriverIsAlone == ASSUME NEW d, Drivers = {d} PROVE NoOverlap
BY DEF NoOverlap, Passes

-----------------------------------------------------------------------------
(* Convergence. Once the disturbances are over, a round of the loop writes   *)
(* every guest its pictures show and prunes the others, and no other pass    *)
(* undoes it: an overlapping pass with the same picture inserts and prunes   *)
(* the same guests. The prover is given what it cannot derive: that the      *)
(* disturbances end (their budget is a natural number), that the passes under *)
(* way at the last of them end too and so does every round (their lists are  *)
(* finite), and when the guard of StartRound lets it run.                    *)

\* What a pass was told is still so.
Accurate(p) ==
  /\ pc[p] = "qemu" => listed[p] = running[hostOf[p[2]]] \intersect Containers
  /\ pc[p] \in {"store", "write"} => listed[p] = running[hostOf[p[2]]]

AllAccurate == \A p \in Passes : Accurate(p)

\* From some time on nothing changes on a host, fails or crashes; every so often
\* no pass has a picture from before that; every round of the loop ends; and the
\* loop at rest can start one where there is an instance.
SameBudget  == budget' = budget
Undisturbed == <>[][SameBudget]_vars
Turnover    == []<>AllAccurate
RoundsEnd   == []<>Idle(Loop)

Ready == Idle(Loop) /\ instances # {} => ENABLED <<StartRound(Loop)>>_vars

\* A pass has done, or has still to do, each guest of its list.
Exactly ==
  \A p \in Passes :
    /\ pc[p] \in {"store", "write"} => todo[p] \union live[p] = listed[p]
    /\ pc[p] \in {"idle", "lxc", "qemu"} => todo[p] = {} /\ live[p] = {}
    /\ pc[p] = "write" => cur[p] \in todo[p]

\* Who starts passes starts them idle.
LEMMA PassesStart ==
  ASSUME TypeOK, NEW d \in Drivers,
         \/ StartRound(d) \/ \E i \in InstanceIds : StartOne(d, i)
         \/ \E h \in Hosts : AddInstance(d, h)
  PROVE  \A q \in Passes : pc'[q] = pc[q] \/ (pc[q] = "idle" /\ pc'[q] = "lxc")
<1>1. CASE StartRound(d)
  <2> TAKE q \in Passes
  <2>1. PICK e \in Drivers, i \in InstanceIds : q = <<e, i>>
    BY DEF Passes
  <2>2. pc'[q] = IF q[1] = d /\ q[2] \in instances THEN "lxc" ELSE pc[q]
    BY <1>1 DEF StartRound
  <2>3. pc[<<d, i>>] = "idle"
    BY <1>1 DEF StartRound, Idle
  <2> QED BY <2>1, <2>2, <2>3
<1>2. ASSUME NEW i \in InstanceIds, StartOne(d, i)
      PROVE  \A q \in Passes : pc'[q] = pc[q] \/ (pc[q] = "idle" /\ pc'[q] = "lxc")
  BY <1>2 DEF StartOne, Idle, TypeOK
<1>3. ASSUME NEW h \in Hosts, AddInstance(d, h)
      PROVE  \A q \in Passes : pc'[q] = pc[q] \/ (pc[q] = "idle" /\ pc'[q] = "lxc")
  <2>1. FreshInstanceId \in InstanceIds \/ FreshInstanceId \notin InstanceIds
    OBVIOUS
  <2>2. CASE FreshInstanceId \in InstanceIds
    BY <1>3, <2>2 DEF AddInstance, Idle, TypeOK
  <2>3. CASE FreshInstanceId \notin InstanceIds
    BY <1>3, <2>3 DEF AddInstance, TypeOK, Passes
  <2> QED BY <2>1, <2>2, <2>3
<1> QED BY <1>1, <1>2, <1>3

LEMMA SpecExactly == Spec => []Exactly
<1>1. Init => Exactly
  BY DEF Init, Exactly
<1>2. IInv /\ Exactly /\ [Next]_vars => Exactly'
  <2> SUFFICES ASSUME IInv, Exactly, [Next]_vars PROVE Exactly'
    OBVIOUS
  <2> USE DEF Exactly, IInv, TypeOK
  <2>0. ASSUME NEW d \in Drivers,
               \/ StartRound(d) \/ \E i \in InstanceIds : StartOne(d, i)
               \/ \E h \in Hosts : AddInstance(d, h)
        PROVE  Exactly'
    <3>1. \A q \in Passes : pc'[q] = pc[q] \/ (pc[q] = "idle" /\ pc'[q] = "lxc")
      BY <2>0, PassesStart
    <3>2. UNCHANGED <<listed, todo, live, cur>>
      BY <2>0 DEF StartRound, StartOne, AddInstance
    <3> QED BY <3>1, <3>2
  <2>1. CASE Administration
    BY <2>0, <2>1 DEF Administration, RemoveInstance, Grant, Revoke,
       GrantNode, RevokeNode, passVars
  <2>2. CASE World
    BY <2>2 DEF World, HostChanges, Crash, passVars
  <2>4. ASSUME NEW p \in Passes,
               ListContainers(p) \/ ListVMs(p) \/ \E v \in Vmids : SelectGuest(p, v)
        PROVE  Exactly'
    BY <2>4 DEF ListContainers, ListVMs, SelectGuest
  <2>5. ASSUME NEW p \in Passes, InsertGuest(p) \/ UpdateGuest(p) \/ UpsertFails(p)
        PROVE  Exactly'
    BY <2>5 DEF InsertGuest, UpdateGuest, UpsertFails, NextGuestOf
  <2>6. ASSUME NEW p \in Passes, Prune(p) \/ PassFails(p)
        PROVE  Exactly'
    BY <2>6 DEF Prune, PassFails, PassEnds
  <2>7. CASE UNCHANGED vars
    BY <2>7 DEF vars, passVars
  <2> QED
    BY <2>0, <2>1, <2>2, <2>4, <2>5, <2>6, <2>7 DEF Next, Discovery, PassStep
<1> QED
  BY <1>1, <1>2, SpecIInv, PTL DEF Spec

\* Registered, and removed for good; what is stored of an instance, and that it
\* is what runs.
Known(i) == i \in instances
Gone(i)  == i \notin instances /\ hostOf[i] # NoHost

Stored(i)  == {g.vmid : g \in GuestsOf(i)}
Settled(i) == Stored(i) = running[hostOf[i]]

\* The pass of the loop on instance i is under way, and the guests it has done
\* are stored.
Sound(i) ==
  LET p == <<Loop, i>> IN
  /\ pc[p] # "idle"
  /\ live[p] \subseteq Stored(i)
  /\ pc[p] = "write" /\ hit[p] # 0 => cur[p] \in Stored(i)

\* The invariants, when no picture is out of date.
Calm == IInv /\ Exactly /\ AllAccurate

\* In a quiet step the stored guests of an instance lose none that is running
\* and win none that is not.
LEMMA QuietRows ==
  ASSUME Calm, [Next]_vars, SameBudget, NEW i \in InstanceIds, Known(i), Known(i)'
  PROVE  /\ running' = running /\ hostOf'[i] = hostOf[i]
         /\ Stored(i) \intersect running[hostOf[i]] \subseteq Stored(i)'
         /\ Stored(i)' \subseteq Stored(i) \union running[hostOf[i]]
<1> DEFINE Goal == /\ running' = running /\ hostOf'[i] = hostOf[i]
                   /\ Stored(i) \intersect running[hostOf[i]] \subseteq Stored(i)'
                   /\ Stored(i)' \subseteq Stored(i) \union running[hostOf[i]]
<1>0. TypeOK /\ Exactly /\ AllAccurate /\ InstancesHosted
  BY DEF Calm, IInv
<1>1. ASSUME UNCHANGED <<guests, running, hostOf>> PROVE Goal
  BY <1>1 DEF Stored, GuestsOf
<1>2. CASE Administration
  <2>1. ASSUME NEW j \in InstanceIds, RemoveInstance(j) PROVE Goal
    <3>1. j # i
      BY <2>1 DEF RemoveInstance, Known
    <3>2. {g \in guests' : g.inst = i} = {g \in guests : g.inst = i}
      BY <2>1, <3>1 DEF RemoveInstance, GuestsOf
    <3> QED BY <2>1, <3>2 DEF RemoveInstance, Stored, GuestsOf, worldVars
  <2>2. ASSUME NEW d \in Drivers, NEW h \in Hosts, AddInstance(d, h) PROVE Goal
    <3>1. UNCHANGED <<guests, running>> /\ hostOf'[i] = hostOf[i]
      BY <1>0, <2>2 DEF AddInstance, FreshInstanceId, InstancesHosted, Known, worldVars, TypeOK
    <3> QED BY <3>1 DEF Stored, GuestsOf
  <2>3. CASE \/ \E s \in Subjects, rows \in SUBSET shown : Grant(s, rows)
             \/ \E r \in rules : Revoke(r)
             \/ \E s \in Subjects, j \in InstanceIds : GrantNode(s, j)
             \/ \E r \in nodeRules : RevokeNode(r)
    BY <1>1, <2>3 DEF Grant, Revoke, GrantNode, RevokeNode, worldVars
  <2> QED BY <1>2, <2>1, <2>2, <2>3 DEF Administration
<1>3. CASE World
  BY <1>0, <1>3 DEF World, HostChanges, Crash, SameBudget, TypeOK
<1>4. ASSUME NEW d \in Drivers,
             StartRound(d) \/ \E j \in InstanceIds : StartOne(d, j)
      PROVE  Goal
  BY <1>1, <1>4 DEF StartRound, StartOne, dbVars, worldVars
<1>5. ASSUME NEW q \in Passes,
             \/ ListContainers(q) \/ ListVMs(q) \/ \E v \in Vmids : SelectGuest(q, v)
             \/ UpdateGuest(q)
      PROVE  Goal
  BY <1>1, <1>5 DEF ListContainers, ListVMs, SelectGuest, UpdateGuest, dbVars, worldVars
<1>6. ASSUME NEW q \in Passes, UpsertFails(q) \/ PassFails(q)
      PROVE  Goal
  BY <1>0, <1>6 DEF UpsertFails, PassFails, SameBudget, TypeOK
<1>7. ASSUME NEW q \in Passes, InsertGuest(q) PROVE Goal
  <2>1. /\ guests' = guests \union {[id |-> nextGuest, inst |-> q[2], vmid |-> cur[q]]}
        /\ UNCHANGED <<running, hostOf>> /\ pc[q] = "write"
    BY <1>7 DEF InsertGuest, FreshGuestId, worldVars
  <2>2. cur[q] \in running[hostOf[q[2]]]
    BY <1>0, <2>1 DEF Exactly, AllAccurate, Accurate
  <2> QED BY <2>1, <2>2 DEF Stored, GuestsOf
<1>8. ASSUME NEW q \in Passes, Prune(q) PROVE Goal
  <2>1. /\ guests' = guests \ {g \in GuestsOf(q[2]) : g.vmid \notin live[q]}
        /\ UNCHANGED <<running, hostOf>> /\ pc[q] = "store" /\ todo[q] = {}
    BY <1>8 DEF Prune, worldVars
  <2>2. live[q] = running[hostOf[q[2]]]
    BY <1>0, <2>1 DEF Exactly, AllAccurate, Accurate
  <2> QED BY <2>1, <2>2 DEF Stored, GuestsOf
<1>9. CASE UNCHANGED vars
  BY <1>1, <1>9 DEF vars, dbVars, worldVars
<1> QED
  BY <1>2, <1>3, <1>4, <1>5, <1>6, <1>7, <1>8, <1>9 DEF Next, Discovery, PassStep

\* What a quiet step does to the pass of the loop on instance i.
LEMMA QuietPass ==
  ASSUME Calm, [Next]_vars, SameBudget, NEW i \in InstanceIds, Known(i), Known(i)',
         Loop \in Drivers, Sound(i)
  PROVE  Sound(i)' \/ Settled(i)'
<1> DEFINE p == <<Loop, i>>
<1>0. TypeOK /\ Exactly /\ AllAccurate /\ p \in Passes /\ p[2] = i
  BY DEF Calm, IInv, Passes
<1>s. /\ pc[p] # "idle" /\ live[p] \subseteq Stored(i)
      /\ pc[p] = "write" /\ hit[p] # 0 => cur[p] \in Stored(i)
  BY DEF Sound
<1>r. /\ running' = running /\ hostOf'[i] = hostOf[i]
      /\ Stored(i) \intersect running[hostOf[i]] \subseteq Stored(i)'
      /\ Stored(i)' \subseteq Stored(i) \union running[hostOf[i]]
  BY QuietRows
<1>l. /\ live[p] \subseteq running[hostOf[i]]
      /\ pc[p] = "write" => cur[p] \in running[hostOf[i]]
  BY <1>0, <1>s DEF Exactly, AllAccurate, Accurate, TypeOK
<1>k. live[p] \subseteq Stored(i)' /\ (pc[p] = "write" /\ hit[p] # 0 => cur[p] \in Stored(i)')
  BY <1>s, <1>r, <1>l
<1>1. ASSUME UNCHANGED <<pc[p], live[p], hit[p], cur[p]>> PROVE Sound(i)'
  BY <1>1, <1>k, <1>s DEF Sound
<1>2. CASE Administration
  <2>1. ASSUME NEW d \in Drivers, NEW h \in Hosts, AddInstance(d, h) PROVE Sound(i)'
    BY <1>0, <1>1, <2>1 DEF AddInstance, TypeOK
  <2>2. CASE UNCHANGED passVars
    BY <1>1, <2>2 DEF passVars
  <2> QED BY <1>2, <2>1, <2>2 DEF Administration, RemoveInstance, Grant, Revoke, GrantNode, RevokeNode
<1>3. CASE World
  BY <1>0, <1>3 DEF World, HostChanges, Crash, SameBudget, TypeOK
<1>4. ASSUME NEW d \in Drivers,
             StartRound(d) \/ \E j \in InstanceIds : StartOne(d, j)
      PROVE  Sound(i)'
  <2>1. pc'[p] = pc[p]
    BY <1>0, <1>s, <1>4, PassesStart
  <2>2. UNCHANGED <<live, hit, cur>>
    BY <1>4 DEF StartRound, StartOne
  <2> QED BY <1>1, <2>1, <2>2
<1>5. ASSUME NEW q \in Passes, q # p, PassStep(q) PROVE Sound(i)'
  <2>1. UNCHANGED <<pc[p], live[p], hit[p], cur[p]>>
    BY <1>0, <1>5 DEF PassStep, ListContainers, ListVMs, SelectGuest, InsertGuest,
       UpdateGuest, Prune, PassEnds, NextGuestOf, TypeOK
  <2> QED BY <1>1, <2>1
<1>6. ASSUME NEW q \in Passes, UpsertFails(q) \/ PassFails(q)
      PROVE  Sound(i)'
  BY <1>0, <1>6 DEF UpsertFails, PassFails, SameBudget, TypeOK
<1>7. CASE ListContainers(p) \/ ListVMs(p)
  BY <1>0, <1>7, <1>k DEF ListContainers, ListVMs, Sound, TypeOK
<1>8. ASSUME NEW v \in Vmids, SelectGuest(p, v) PROVE Sound(i)'
  <2>1. /\ UNCHANGED <<live, guests>> /\ cur'[p] = v /\ pc'[p] = "write"
    BY <1>0, <1>8 DEF SelectGuest, dbVars, TypeOK
  <2>2. hit'[p] # 0 => \E g \in GuestsOf(i) : g.vmid = v
    BY <1>0, <1>8 DEF SelectGuest, TypeOK
  <2>3. hit'[p] # 0 => v \in Stored(i)'
    BY <2>1, <2>2 DEF Stored, GuestsOf
  <2> QED BY <1>k, <2>1, <2>3 DEF Sound
<1>9. CASE InsertGuest(p)
  <2>1. /\ guests' = guests \union {[id |-> nextGuest, inst |-> i, vmid |-> cur[p]]}
        /\ pc'[p] = "store" /\ live'[p] = live[p] \union {cur[p]}
    BY <1>0, <1>9 DEF InsertGuest, FreshGuestId, NextGuestOf, TypeOK
  <2> DEFINE row == [id |-> nextGuest, inst |-> i, vmid |-> cur[p]]
  <2>3. row \in guests' /\ row.inst = i /\ row.vmid = cur[p]
    BY <2>1
  <2> HIDE DEF row
  <2>2. cur[p] \in Stored(i)'
    BY <2>3 DEF Stored, GuestsOf
  <2> QED BY <1>k, <2>1, <2>2 DEF Sound
<1>10. CASE UpdateGuest(p)
  <2>1. /\ pc[p] = "write" /\ hit[p] # 0
        /\ pc'[p] = "store" /\ live'[p] = live[p] \union {cur[p]}
    BY <1>0, <1>10 DEF UpdateGuest, NextGuestOf, TypeOK
  <2> QED BY <1>k, <2>1 DEF Sound
<1>11. CASE Prune(p)
  <2>1. /\ guests' = guests \ {g \in GuestsOf(i) : g.vmid \notin live[p]}
        /\ pc[p] = "store" /\ todo[p] = {}
    BY <1>0, <1>11 DEF Prune
  <2>4. live[p] = listed[p]
    BY <1>0, <2>1 DEF Exactly
  <2>2. live[p] = running[hostOf[i]]
    BY <1>0, <2>1, <2>4 DEF AllAccurate, Accurate
  <2>3. Stored(i)' \subseteq live[p]
    BY <2>1 DEF Stored, GuestsOf
  <2> QED BY <1>k, <1>r, <2>2, <2>3 DEF Settled
<1>12. CASE UNCHANGED vars
  BY <1>1, <1>12 DEF vars, passVars
<1>13. ASSUME NEW q \in Passes, PassStep(q) PROVE Sound(i)' \/ Settled(i)'
  <2>1. CASE q = p
    BY <1>13, <2>1, <1>7, <1>8, <1>9, <1>10, <1>11 DEF PassStep
  <2> QED BY <1>5, <1>13, <2>1
<1> QED
  BY <1>2, <1>3, <1>4, <1>6, <1>12, <1>13 DEF Next, Discovery

\* Once settled, always settled.
LEMMA QuietSettled ==
  ASSUME Calm, [Next]_vars, SameBudget, NEW i \in InstanceIds, Known(i), Known(i)',
         Settled(i)
  PROVE  Settled(i)'
BY QuietRows DEF Settled

\* The loop that turns from idle to busy does so by starting a round, which
\* takes part in instance i with nothing written yet.
LEMMA RoundTakesEach ==
  ASSUME Calm, [Next]_vars, NEW i \in InstanceIds, Known(i),
         Loop \in Drivers, Idle(Loop)
  PROVE  /\ Idle(Loop)' \/ Sound(i)'
         /\ <<StartRound(Loop)>>_vars => ~Idle(Loop)'
<1> DEFINE p == <<Loop, i>>
<1>0. TypeOK /\ Exactly /\ p \in Passes /\ pc[p] = "idle"
  BY DEF Calm, IInv, Passes, Idle
<1>1. ASSUME StartRound(Loop) PROVE Sound(i)' /\ ~Idle(Loop)'
  <2>1. pc'[p] = "lxc" /\ live'[p] = {}
    BY <1>0, <1>1 DEF StartRound, Known, Exactly
  <2> QED BY <2>1 DEF Sound, Idle
<1>2. ASSUME \A j \in InstanceIds : pc'[<<Loop, j>>] = pc[<<Loop, j>>] PROVE Idle(Loop)'
  BY <1>2 DEF Idle
<1>3. \A q \in Passes : q[1] = Loop => pc[q] = "idle"
  BY DEF Passes, Idle
<1>4. \A j \in InstanceIds : <<Loop, j>> \in Passes
  BY DEF Passes
<1>5. ASSUME Administration PROVE Idle(Loop)'
  <2>1. ASSUME NEW d \in Drivers, NEW h \in Hosts, AddInstance(d, h) PROVE Idle(Loop)'
    BY <1>0, <1>2, <2>1, <1>4 DEF AddInstance, TypeOK
  <2>2. ASSUME UNCHANGED passVars PROVE Idle(Loop)'
    <3>1. pc' = pc
      BY <2>2 DEF passVars
    <3> QED BY <3>1 DEF Idle
  <2> QED BY <1>5, <2>1, <2>2 DEF Administration, RemoveInstance, Grant, Revoke, GrantNode, RevokeNode
<1>6. ASSUME World PROVE Idle(Loop)'
  <2>1. ASSUME Crash PROVE Idle(Loop)'
    <3>1. \A q \in Passes : pc'[q] = "idle"
      BY <2>1 DEF Crash
    <3> QED BY <1>4, <3>1 DEF Idle
  <2>2. ASSUME NEW h \in Hosts, NEW v \in Vmids, HostChanges(h, v) PROVE Idle(Loop)'
    <3>1. pc' = pc
      BY <2>2 DEF HostChanges, passVars
    <3> QED BY <3>1 DEF Idle
  <2> QED BY <1>6, <2>1, <2>2 DEF World
<1>7. ASSUME NEW d \in Drivers, d # Loop, StartRound(d) PROVE Idle(Loop)'
  BY <1>2, <1>4, <1>7 DEF StartRound
<1>8. ASSUME NEW d \in Drivers, NEW j \in InstanceIds, StartOne(d, j) PROVE Idle(Loop)'
  BY <1>0, <1>2, <1>4, <1>8 DEF StartOne, TypeOK
<1>9. ASSUME NEW q \in Passes, PassStep(q) \/ UpsertFails(q) \/ PassFails(q)
      PROVE  Idle(Loop)'
  <2>1. pc[q] # "idle"
    BY <1>9 DEF PassStep, UpsertFails, PassFails, ListContainers, ListVMs, SelectGuest,
       InsertGuest, UpdateGuest, Prune
  <2>2. \A r \in Passes : r # q => pc'[r] = pc[r]
    BY <1>0, <1>9 DEF PassStep, UpsertFails, PassFails, ListContainers, ListVMs, SelectGuest,
       InsertGuest, UpdateGuest, Prune, PassEnds, NextGuestOf, TypeOK
  <2>3. \A j \in InstanceIds : <<Loop, j>> # q
    BY <2>1 DEF Idle
  <2> QED BY <1>2, <1>4, <2>2, <2>3
<1>10. ASSUME UNCHANGED vars PROVE Idle(Loop)'
  BY <1>2, <1>10 DEF vars, passVars
<1>11. Idle(Loop)' \/ Sound(i)'
  BY <1>1, <1>5, <1>6, <1>7, <1>8, <1>9, <1>10 DEF Next, Discovery
<1> QED BY <1>1, <1>11

\* Ids are never handed out twice: a removed instance does not come back.
LEMMA InstanceGoesForGood ==
  ASSUME IInv, [Next]_vars, NEW i \in InstanceIds
  PROVE  /\ Gone(i) => Gone(i)'
         /\ Known(i) => Known(i)' \/ Gone(i)'
<1> USE DEF Gone, Known, IInv, TypeOK, InstancesHosted
<1>1. ASSUME NEW d \in Drivers, NEW h \in Hosts, AddInstance(d, h)
      PROVE  (Gone(i) => Gone(i)') /\ (Known(i) => Known(i)' \/ Gone(i)')
  BY <1>1, InventoryAssumption DEF AddInstance, FreshInstanceId, InstanceIds
<1>2. ASSUME NEW j \in InstanceIds, RemoveInstance(j)
      PROVE  (Gone(i) => Gone(i)') /\ (Known(i) => Known(i)' \/ Gone(i)')
  BY <1>2 DEF RemoveInstance
<1>3. ASSUME UNCHANGED <<instances, hostOf>>
      PROVE  (Gone(i) => Gone(i)') /\ (Known(i) => Known(i)' \/ Gone(i)')
  BY <1>3
<1>4. CASE \/ Discovery \/ World \/ UNCHANGED vars
           \/ \E s \in Subjects, rows \in SUBSET shown : Grant(s, rows)
           \/ \E r \in rules : Revoke(r)
           \/ \E s \in Subjects, j \in InstanceIds : GrantNode(s, j)
           \/ \E r \in nodeRules : RevokeNode(r)
  <2>1. UNCHANGED <<instances, hostOf>>
    BY <1>4 DEF Discovery, PassStep, StartRound, StartOne, ListContainers, ListVMs, SelectGuest,
       InsertGuest, UpdateGuest, UpsertFails, PassFails, Prune, World, HostChanges, Crash, dbVars,
       Grant, Revoke, GrantNode, RevokeNode, vars
  <2> QED BY <1>3, <2>1
<1> QED BY <1>1, <1>2, <1>4 DEF Next, Administration

\* Only a disturbance makes a picture out of date: one taken in a quiet
\* inventory is right, and so stays.
LEMMA QuietPictures ==
  ASSUME IInv, Exactly, [Next]_vars, SameBudget, AllAccurate
  PROVE  AllAccurate'
<1> USE DEF AllAccurate, Accurate
<1>0. TypeOK /\ InstancesHosted
  BY DEF IInv
<1>1. ASSUME UNCHANGED <<running, hostOf, pc, listed>> PROVE AllAccurate'
  BY <1>1
<1>2. CASE Administration
  <2>1. ASSUME NEW d \in Drivers, NEW h \in Hosts, AddInstance(d, h) PROVE AllAccurate'
    <3>1. \A q \in Passes : pc'[q] = pc[q] \/ pc'[q] = "lxc"
      BY <1>0, <2>1, PassesStart
    <3>2. UNCHANGED <<running, listed>>
      BY <2>1 DEF AddInstance, worldVars
    <3>3. \A j \in InstanceIds : hostOf[j] # NoHost => hostOf'[j] = hostOf[j]
      BY <1>0, <2>1 DEF AddInstance, FreshInstanceId, InstancesHosted, TypeOK
    <3>4. \A q \in Passes : q[2] \in InstanceIds
      BY PassParts
    <3>5. \A q \in Passes : pc[q] # "idle" => hostOf'[q[2]] = hostOf[q[2]]
      BY <1>0, <3>3, <3>4 DEF InstancesHosted
    <3> QED BY <3>1, <3>2, <3>5
  <2>2. CASE UNCHANGED <<running, hostOf, passVars>>
    BY <1>1, <2>2 DEF passVars
  <2> QED
    BY <1>2, <2>1, <2>2
    DEF Administration, RemoveInstance, Grant, Revoke, GrantNode, RevokeNode, worldVars
<1>3. CASE World
  BY <1>0, <1>3 DEF World, HostChanges, Crash, SameBudget, TypeOK
<1>4. ASSUME NEW d \in Drivers,
             StartRound(d) \/ \E j \in InstanceIds : StartOne(d, j)
      PROVE  AllAccurate'
  <2>1. \A q \in Passes : pc'[q] = pc[q] \/ pc'[q] = "lxc"
    BY <1>0, <1>4, PassesStart
  <2>2. UNCHANGED <<running, hostOf, listed>>
    BY <1>4 DEF StartRound, StartOne, dbVars, worldVars
  <2> QED BY <2>1, <2>2
<1>5. ASSUME NEW q \in Passes,
             ListContainers(q) \/ ListVMs(q) \/ \E v \in Vmids : SelectGuest(q, v)
      PROVE  AllAccurate'
  <2>1. UNCHANGED <<running, hostOf>>
    BY <1>5 DEF ListContainers, ListVMs, SelectGuest, dbVars, worldVars
  <2>2. \A r \in Passes : r # q => pc'[r] = pc[r] /\ listed'[r] = listed[r]
    BY <1>0, <1>5 DEF ListContainers, ListVMs, SelectGuest, TypeOK
  <2>3. CASE ListContainers(q)
    BY <1>0, <2>1, <2>2, <2>3 DEF ListContainers, TypeOK
  <2>4. CASE ListVMs(q)
    <3>1. running[hostOf[q[2]]] \subseteq Vmids
      BY <1>0, <2>4, PassParts DEF ListVMs, InstancesHosted, TypeOK
    <3>2. /\ pc[q] = "qemu" /\ pc'[q] = "store"
          /\ listed'[q] = listed[q] \union (running[hostOf[q[2]]] \ Containers)
      BY <1>0, <2>4 DEF ListVMs, TypeOK
    <3>3. listed'[q] = running[hostOf[q[2]]]
      BY <3>1, <3>2
    <3> QED BY <2>1, <2>2, <3>2, <3>3
  <2>5. ASSUME NEW v \in Vmids, SelectGuest(q, v) PROVE AllAccurate'
    BY <1>0, <2>1, <2>2, <2>5 DEF SelectGuest, TypeOK
  <2> QED BY <1>5, <2>3, <2>4, <2>5
<1>6. ASSUME NEW q \in Passes, UpsertFails(q) \/ PassFails(q)
      PROVE  AllAccurate'
  BY <1>0, <1>6 DEF UpsertFails, PassFails, SameBudget, TypeOK
<1>7. ASSUME NEW q \in Passes, InsertGuest(q) \/ UpdateGuest(q) \/ Prune(q)
      PROVE  AllAccurate'
  BY <1>0, <1>7 DEF InsertGuest, UpdateGuest, Prune, PassEnds, NextGuestOf,
     dbVars, worldVars, TypeOK
<1>8. CASE UNCHANGED vars
  BY <1>1, <1>8 DEF vars, dbVars, worldVars, passVars
<1> QED
  BY <1>2, <1>3, <1>4, <1>5, <1>6, <1>7, <1>8 DEF Next, Discovery, PassStep

\* An instance is registered from some time on, or no longer is.
LEMMA KnownOrGone ==
  ASSUME NEW i \in InstanceIds
  PROVE  Spec => <>[]Known(i) \/ <>[]~Known(i)
<1>1. IInv /\ [Next]_vars =>
        (Gone(i) => Gone(i)') /\ (Known(i) => Known(i)' \/ Gone(i)')
  BY InstanceGoesForGood
<1>2. Gone(i) => ~Known(i)
  BY DEF Gone, Known
<1> QED BY <1>1, <1>2, SpecIInv, PTL DEF Spec

\* Hence all pictures are right from some time on.
LEMMA QuietForEver ==
  Spec /\ Undisturbed /\ Turnover => <>([]Calm /\ [][SameBudget]_vars)
<1>1. IInv /\ Exactly /\ [Next]_vars /\ [SameBudget]_vars /\ AllAccurate => AllAccurate'
  <2>1. [SameBudget]_vars => SameBudget
    BY DEF SameBudget, vars, worldVars
  <2> QED BY <2>1, QuietPictures
<1>2. IInv /\ Exactly /\ AllAccurate => Calm
  BY DEF Calm
<1> QED
  BY <1>1, <1>2, SpecIInv, SpecExactly, PTL DEF Spec, Undisturbed, Turnover

\* Once the hosts are quiet, the stored guests of every instance that stays
\* registered become, and stay, exactly the guests running on its host: a round
\* of RunOnce repairs whatever crashes, failed writes and other passes left.
THEOREM InventorySettles ==
  ASSUME Loop \in Drivers
  PROVE  FairSpec /\ []Ready /\ Undisturbed /\ Turnover /\ RoundsEnd => Converges
<1>1. ASSUME NEW i \in InstanceIds
      PROVE  FairSpec /\ []Ready /\ Undisturbed /\ Turnover /\ RoundsEnd
               => <>[](i \in instances => {g.vmid : g \in GuestsOf(i)} = running[hostOf[i]])
  <2>1. Calm /\ [Next]_vars /\ [SameBudget]_vars /\ Known(i) /\ Known(i)' =>
          /\ Sound(i) => Sound(i)' \/ Settled(i)'
          /\ Settled(i) => Settled(i)'
    <3>1. [SameBudget]_vars => SameBudget
      BY DEF SameBudget, vars, worldVars
    <3> QED BY <3>1, QuietPass, QuietSettled
  <2>2. Calm /\ [Next]_vars /\ Known(i) =>
          /\ Idle(Loop) => Idle(Loop)' \/ Sound(i)'
          /\ Idle(Loop) /\ <<StartRound(Loop)>>_vars => ~(Idle(Loop)')
    BY RoundTakesEach
  <2>3. Sound(i) => ~Idle(Loop)
    BY DEF Sound, Idle
  <2>4. Ready /\ Known(i) /\ Idle(Loop) => ENABLED <<StartRound(Loop)>>_vars
    BY DEF Ready, Known
  <2>5. <<StartRound(Loop)>>_vars => Idle(Loop)
    BY DEF StartRound
  <2>6. FairSpec => Spec /\ WF_vars(StartRound(Loop))
    BY PTL DEF FairSpec, Fairness
  <2>7. /\ Settled(i) => (i \in instances => {g.vmid : g \in GuestsOf(i)} = running[hostOf[i]])
        /\ ~Known(i) => (i \in instances => {g.vmid : g \in GuestsOf(i)} = running[hostOf[i]])
    BY DEF Settled, Stored, Known
  <2>8. Spec => [][Next]_vars
    BY DEF Spec
  <2>9. /\ Spec /\ WF_vars(StartRound(Loop)) /\ []Ready /\ RoundsEnd
        /\ <>([]Calm /\ [][SameBudget]_vars) /\ <>[]Known(i)
        => <>[]Settled(i)
    BY <2>1, <2>2, <2>3, <2>4, <2>5, <2>8, PTL DEF RoundsEnd
  <2> QED
    BY <2>6, <2>7, <2>9, KnownOrGone, QuietForEver, PTL
<1> QED
  BY <1>1 DEF Converges
=============================================================================
