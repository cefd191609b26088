---------------------------- MODULE Session_proofs ----------------------------
(***************************************************************************)
(* What a user's session is about: where a login name leads (Login), the   *)
(* list it is chosen from (Picker), what a console passes on (Console) and *)
(* what a transfer leaves in the file (Transfer). They share no state, and *)
(* each has its own inductive invariant: LoginInv adds to the types what   *)
(* a name may still turn out to mean, PickerInv that the list is in order, *)
(* ConsoleInv what the escape reader remembers of all the keys it has      *)
(* seen, TransferInv that what was answered is in the file.                *)
(***************************************************************************)
EXTENDS Login, Picker, Console, Transfer, SequenceTheorems, FiniteSetTheorems, TLAPS

(***************************************************************************)
(* A login name                                                            *)
(***************************************************************************)
\* What a name means when no node has it.
GuestMeaning(n) ==
  LET found == resolveLoginNameGuest(n, guests)
  IN  IF ~isReservedLoginName(n) /\ Cardinality(found) = 1 THEN {Guest(g) : g \in found}
      ELSE {Nobody}

Asking == pc \in {"nodes", "guests"}

\* Whoever still asks has nothing yet, and knows what the name means at present.
NothingYet ==
  /\ pc \in {"nodes", "guests", "picker"} => target = Nobody
  /\ Asking => listed = {}
  /\ Asking /\ kind # "connect" => ~isReservedLoginName(name) /\ Meaning(name) \subseteq meant

\* Whoever asks for guests has been told of no node. One may have been given since;
\* if nothing else has changed, the name meant what the guests will answer.
NoNodeYet ==
  pc = "guests" /\ kind # "connect" /\ "failure" \notin disturbed
  => \/ NodesNamed(name, nodes) = {}
     \/ /\ "nodeGiven" \in disturbed
        /\ "guests" \in disturbed \/ GuestMeaning(name) \subseteq meant

\* What was found or listed is still to be had, unless something was taken away.
StillOpen ==
  "taken" \notin disturbed =>
    /\ pc = "connect" => target \in Reachable
    /\ pc = "picker" => listed \subseteq Reachable

LoginInv == LoginTypeOK /\ NothingYet /\ NoNodeYet /\ StillOpen /\ SamePlace

\* What is said of a guest.
Said(g) == [vmid |-> <<Row[g].vmid>>, id |-> <<Row[g].id>>, name |-> Row[g].name]

-----------------------------------------------------------------------------
\* The estate, one fact at a time.

LEMMA ChangesAreCounted == MaxChanges \in Nat
BY LoginAssumption, Zenon

LEMMA SaidIsAName ==
  ASSUME NEW g \in Guests
  PROVE  /\ Said(g)["vmid"] \in Seq(Part) \ {<<>>}
         /\ Said(g)["id"] \in Seq(Part) \ {<<>>, <<"">>}
         /\ Said(g)["name"] \in Seq(Part) \ {<<>>}
<1>1. /\ Row[g].vmid \in Part /\ Row[g].id \in Part /\ Row[g].id # ""
      /\ Row[g].name \in Seq(Part) \ {<<>>}
  BY LoginAssumption, Zenon
<1>2. ASSUME NEW p \in Part
      PROVE  <<p>> \in Seq(Part) /\ <<p>> # <<>> /\ (<<p>> = <<"">> => p = "")
  <2>1. <<p>> \in Seq(Part)
    OBVIOUS
  <2>2. <<p>> # <<>>
    OBVIOUS
  <2>3. <<p>> = <<"">> => p = ""
    OBVIOUS
  <2> QED BY <2>1, <2>2, <2>3
<1>3. /\ Said(g)["vmid"] = <<Row[g].vmid>> /\ Said(g)["id"] = <<Row[g].id>>
      /\ Said(g)["name"] = Row[g].name
  BY DEF Said
<1> QED BY <1>1, <1>2, <1>3

-----------------------------------------------------------------------------
\* What a name is resolved to.

LEMMA HostsAreInstances ==
  ASSUME NEW pool \in SUBSET Guests
  PROVE  namedInstances(pool) \in SUBSET Instances
<1>1. \A g \in pool : Row[g].inst \in Instances
  BY LoginAssumption, Zenon
<1> QED BY <1>1 DEF namedInstances

LEMMA FoundAreGuests ==
  ASSUME NEW n, NEW pool \in SUBSET Guests, NEW visible
  PROVE  ResolveGuestAndInstance(n, pool, visible) \subseteq pool
BY DEF ResolveGuestAndInstance, resolveGuest, ParseGuestTarget

LEMMA OneFound ==
  ASSUME NEW n, NEW pool \in SUBSET Guests, NEW visible
  PROVE  Cardinality(ResolveGuestAndInstance(n, pool, visible)) = 1 <=>
         \E g \in ResolveGuestAndInstance(n, pool, visible) :
            ResolveGuestAndInstance(n, pool, visible) = {g}
<1> DEFINE found == ResolveGuestAndInstance(n, pool, visible)
<1>1. IsFiniteSet(found)
  BY FoundAreGuests, LoginAssumption, FS_Subset
<1> HIDE DEF found
<1>2. Cardinality(found) = 1 <=> \E g : found = {g}
  BY <1>1, FS_Singleton
<1>3. (\E g : found = {g}) <=> \E g \in found : found = {g}
  OBVIOUS
<1> QED BY <1>2, <1>3 DEF found

LEMMA LoginNameFinds ==
  ASSUME LoginTypeOK, NEW n
  PROVE  /\ resolveLoginNameGuest(n, guests) \subseteq Guests
         /\ GuestMeaning(n) \subseteq Targets
BY FoundAreGuests DEF resolveLoginNameGuest, GuestMeaning, LoginTypeOK, Targets

\* A name means one thing.
LEMMA MeansOneThing ==
  ASSUME LoginTypeOK, NEW n
  PROVE  \E t \in Targets : Meaning(n) = {t}
<1> DEFINE named == NodesNamed(n, nodes)
           found == resolveLoginNameGuest(n, guests)
<1>1. CASE named # {}
  <2>1. PICK i \in named : TRUE
    BY <1>1
  <2>2. ASSUME NEW j \in named PROVE j = i
    <3>1. i \in Instances /\ j \in Instances /\ <<NodeName[i]>> = <<NodeName[j]>>
      BY LoginAssumption DEF NodesNamed, LoginTypeOK
    <3>2. NodeName[i] = NodeName[j]
      BY <3>1
    <3> QED BY <3>1, <3>2, LoginAssumption
  <2>3. named = {i} /\ i \in Instances
    BY <2>2, LoginAssumption DEF NodesNamed, LoginTypeOK
  <2>4. Meaning(n) = {Node(i)}
    BY <1>1, <2>3 DEF Meaning
  <2> QED BY <2>3, <2>4 DEF Targets
<1>2. CASE named = {} /\ ~isReservedLoginName(n) /\ Cardinality(found) = 1
  <2>1. PICK g \in found : found = {g}
    BY <1>2, OneFound DEF resolveLoginNameGuest, LoginTypeOK
  <2>2. Meaning(n) = {Guest(g)} /\ g \in Guests
    BY <1>2, <2>1, LoginNameFinds DEF Meaning
  <2> QED BY <2>2 DEF Targets
<1>3. CASE named = {} /\ (isReservedLoginName(n) \/ Cardinality(found) # 1)
  BY <1>3 DEF Meaning, Targets
<1> QED BY <1>1, <1>2, <1>3

\* A name that no node has means what the guests answer, and so does a reserved one.
LEMMA MeaningOfGuests ==
  ASSUME NEW n
  PROVE  /\ NodesNamed(n, nodes) = {} => Meaning(n) = GuestMeaning(n)
         /\ isReservedLoginName(n) => Meaning(n) = {Nobody}
BY DEF Meaning, GuestMeaning, NodesNamed

-----------------------------------------------------------------------------
\* One lemma for each kind of step.

LEMMA LoginInitHolds == LoginInit => LoginInv
<1> SUFFICES ASSUME LoginInit PROVE LoginInv
  OBVIOUS
<1>1. 0 \in 0..MaxChanges /\ Nobody \in Targets
  BY ChangesAreCounted DEF Targets
<1>2. LoginTypeOK
  BY <1>1 DEF LoginInit, LoginTypeOK
<1>3. NothingYet /\ NoNodeYet /\ StillOpen
  BY DEF LoginInit, NothingYet, NoNodeYet, StillOpen, Asking
<1>4. SamePlace
  BY DEF LoginInit, SamePlace, Led
<1> QED BY <1>2, <1>3, <1>4 DEF LoginInv

LEMMA StartKeeps ==
  ASSUME LoginInv, NEW k \in Kinds, NEW n \in LoginNames, Starts(k, n)
  PROVE  LoginInv'
<1>1. /\ kind' = k /\ name' = n /\ listed' = {} /\ target' = Nobody
      /\ outcome' \in {"none", "cli", "failed"} /\ pc' \in {"nodes", "guests", "picker", "done"}
      /\ pc' = "guests" => k = "connect"
      /\ pc' = "nodes" => ~isReservedLoginName(n)
      /\ pc' \in {"picker", "done"} => isReservedLoginName(n)
      /\ meant' = Meaning(n) /\ disturbed' = {} /\ changes' = 0
      /\ UNCHANGED <<guests, nodes>>
  BY DEF Starts, Ends
<1>2. LoginTypeOK'
  <2>1. Meaning(n) \subseteq Targets /\ Nobody \in Targets
    BY MeansOneThing DEF LoginInv, Targets
  <2>2. 0 \in 0..MaxChanges
    BY ChangesAreCounted
  <2> QED BY <1>1, <2>1, <2>2 DEF LoginInv, LoginTypeOK
<1>3. Meaning(name)' = Meaning(n)
  BY <1>1 DEF Meaning
<1>4. NothingYet'
  BY <1>1, <1>3 DEF NothingYet, Asking
<1>5. NoNodeYet' /\ StillOpen'
  BY <1>1 DEF NoNodeYet, StillOpen
<1>6. SamePlace'
  BY <1>1, MeaningOfGuests DEF SamePlace, Resolved, Led
<1> QED BY <1>2, <1>4, <1>5, <1>6 DEF LoginInv

LEMMA NodeLookKeeps ==
  ASSUME LoginInv, NEW fails \in BOOLEAN, LooksForNode(fails)
  PROVE  LoginInv'
<1>1. /\ pc = "nodes"
      /\ UNCHANGED <<guests, nodes, changes, kind, name, listed, outcome, meant>>
      /\ disturbed' = IF fails THEN disturbed \union {"failure"} ELSE disturbed
      /\ \/ \E i \in NodesNamed(name, nodes) : target' = Node(i) /\ pc' = "connect"
         \/ (fails \/ NodesNamed(name, nodes) = {}) /\ pc' = "guests" /\ target' = target
  BY DEF LooksForNode, NodesFound, Suffers, rules
<1>2. NodesNamed(name, nodes) \subseteq nodes /\ nodes \subseteq Instances
  BY LoginAssumption DEF NodesNamed, LoginInv, LoginTypeOK
<1>3. target = Nobody /\ listed = {} /\ Nobody \in Targets
      /\ (kind # "connect" => ~isReservedLoginName(name) /\ Meaning(name) \subseteq meant)
  BY <1>1 DEF LoginInv, NothingYet, Asking, Targets
<1>4. LoginTypeOK'
  <2>1. target' \in Targets
    BY <1>1, <1>2, <1>3 DEF Targets
  <2> QED BY <1>1, <2>1 DEF LoginInv, LoginTypeOK, Disturbances
<1>5. /\ Meaning(name)' = Meaning(name) /\ GuestMeaning(name)' = GuestMeaning(name)
      /\ Reachable' = Reachable
  BY <1>1 DEF Meaning, GuestMeaning, Reachable
<1>6. NothingYet'
  BY <1>1, <1>3, <1>5 DEF NothingYet, Asking
<1>7. NoNodeYet'
  BY <1>1 DEF NoNodeYet
<1>8. StillOpen'
  BY <1>1, <1>2 DEF StillOpen, Reachable
<1>9. SamePlace'
  <2>1. outcome' = "denied" => "taken" \in disturbed'
    BY <1>1 DEF LoginInv, SamePlace
  <2>2. pc' = "connect" /\ kind # "connect" => target' \in meant
    BY <1>1, <1>3 DEF Meaning
  <2> QED BY <1>1, <1>3, <2>1, <2>2 DEF SamePlace, Resolved, Led
<1> QED BY <1>4, <1>6, <1>7, <1>8, <1>9 DEF LoginInv

\* As long as nothing has interfered that matters, what the guests answer is what
\* the name has meant.
LEMMA AnswerIsMeant ==
  ASSUME LoginInv, pc = "guests", kind # "connect", "failure" \notin disturbed,
         ~({"guests", "nodeGiven"} \subseteq disturbed)
  PROVE  ~isReservedLoginName(name) /\ GuestMeaning(name) \subseteq meant
<1>1. ~isReservedLoginName(name) /\ Meaning(name) \subseteq meant
  BY DEF LoginInv, NothingYet, Asking
<1>2. CASE NodesNamed(name, nodes) = {}
  BY <1>1, <1>2, MeaningOfGuests
<1>3. CASE NodesNamed(name, nodes) # {}
  BY <1>1, <1>3 DEF LoginInv, NoNodeYet
<1> QED BY <1>2, <1>3

LEMMA GuestLookKeeps ==
  ASSUME LoginInv, NEW fails \in BOOLEAN, LooksForGuest(fails)
  PROVE  LoginInv'
<1>0. PICK visible \in Qualifiers :
        LET found == ResolveGuestAndInstance(name, guests, visible)
        IN  /\ pc = "guests"
            /\ Suffers(fails)
            /\ UNCHANGED <<rules, kind, name, listed, meant>>
            /\ IF ~fails /\ Cardinality(found) = 1
               THEN /\ \E g \in found : target' = Guest(g)
                    /\ pc' = "connect" /\ UNCHANGED outcome
               ELSE /\ UNCHANGED target
                    /\ IF kind = "command" THEN Ends("cli")
                       ELSE IF kind = "console" /\ ~fails /\ found = {}
                       THEN pc' = "picker" /\ UNCHANGED outcome
                       ELSE Ends("failed")
  BY DEF LooksForGuest
<1> DEFINE found == ResolveGuestAndInstance(name, guests, visible)
           one == ~fails /\ Cardinality(found) = 1
<1>1. /\ pc = "guests" /\ UNCHANGED <<guests, nodes, changes, kind, name, listed, meant>>
      /\ disturbed' = IF fails THEN disturbed \union {"failure"} ELSE disturbed
  BY <1>0 DEF Suffers, rules
<1>2. found \subseteq guests /\ guests \subseteq Guests
  BY FoundAreGuests DEF LoginInv, LoginTypeOK
<1>3. kind # "connect" => found = resolveLoginNameGuest(name, guests)
  BY DEF Qualifiers, resolveLoginNameGuest
<1>4. target = Nobody /\ listed = {} /\ Nobody \in Targets
  BY <1>1 DEF LoginInv, NothingYet, Asking, Targets
<1>5. one => (\E g \in found : found = {g} /\ target' = Guest(g))
             /\ pc' = "connect" /\ outcome' = outcome
  <2> SUFFICES ASSUME one
               PROVE  (\E g \in found : found = {g} /\ target' = Guest(g))
                      /\ pc' = "connect" /\ outcome' = outcome
    OBVIOUS
  <2>1. \E g \in found : found = {g}
    BY <1>2, OneFound
  <2>2. (\E g \in found : target' = Guest(g)) /\ pc' = "connect" /\ outcome' = outcome
    BY <1>0
  <2> QED BY <2>1, <2>2
<1>6. ~one => /\ target' = Nobody /\ pc' \in {"picker", "done"}
              /\ outcome' \in {"cli", "failed", outcome}
  BY <1>0, <1>4 DEF Ends
<1> HIDE DEF found
<1>7. LoginTypeOK'
  <2>1. target' \in Targets
    BY <1>2, <1>4, <1>5, <1>6 DEF Targets
  <2>2. pc' \in {"connect", "picker", "done"} /\ outcome' \in {"cli", "failed", outcome}
    BY <1>5, <1>6
  <2> QED BY <1>1, <2>1, <2>2 DEF LoginInv, LoginTypeOK, Disturbances
<1>8. NothingYet' /\ NoNodeYet'
  BY <1>5, <1>6 DEF NothingYet, NoNodeYet, Asking
<1>9. StillOpen'
  BY <1>1, <1>2, <1>4, <1>5, <1>6 DEF StillOpen, Reachable
<1>10. SamePlace'
  <2>1. outcome' = "denied" => "taken" \in disturbed'
    BY <1>1, <1>5, <1>6 DEF LoginInv, SamePlace
  <2>2. ASSUME kind # "connect", "failure" \notin disturbed',
               ~({"guests", "nodeGiven"} \subseteq disturbed')
        PROVE  target' \in meant
    <3>1. ~fails /\ disturbed' = disturbed
      BY <1>1, <2>2
    <3>2. ~isReservedLoginName(name) /\ GuestMeaning(name) \subseteq meant
      BY <1>1, <2>2, <3>1, AnswerIsMeant
    <3>3. CASE one
      BY <1>3, <1>5, <2>2, <3>2, <3>3 DEF GuestMeaning
    <3>4. CASE ~one
      BY <1>3, <1>6, <2>2, <3>1, <3>2, <3>4 DEF GuestMeaning
    <3> QED BY <3>3, <3>4
  <2> QED BY <1>1, <1>4, <2>1, <2>2 DEF SamePlace, Resolved, Led
<1> QED BY <1>7, <1>8, <1>9, <1>10 DEF LoginInv

LEMMA PickerKeeps ==
  ASSUME LoginInv,
         \/ \E fails \in BOOLEAN : PickerLists(fails)
         \/ \E t \in listed : PickerPicks(t)
         \/ PickerQuits
  PROVE  LoginInv'
<1> USE DEF LoginInv, LoginTypeOK, rules, history
<1>1. CASE \E fails \in BOOLEAN : PickerLists(fails)
  <2>1. /\ UNCHANGED <<guests, nodes, changes, kind, name, target, meant, disturbed>>
        /\ pc = "picker" /\ listed = {} /\ target = Nobody
        /\ pc' \in {"done", "picker"} /\ listed' \subseteq Reachable
        /\ outcome' \in {"failed", outcome}
    BY <1>1 DEF PickerLists, Ends, Reachable, NothingYet
  <2>2. Reachable \subseteq Targets /\ Reachable' = Reachable
    BY <2>1, LoginAssumption DEF Reachable, Targets
  <2>3. LoginTypeOK'
    BY <2>1, <2>2
  <2>4. NothingYet' /\ NoNodeYet' /\ StillOpen'
    BY <2>1, <2>2 DEF NothingYet, NoNodeYet, StillOpen, Asking
  <2>5. SamePlace'
    BY <2>1 DEF SamePlace, Resolved, Led
  <2> QED BY <2>3, <2>4, <2>5
<1>2. CASE \E t \in listed : PickerPicks(t)
  <2>1. /\ UNCHANGED <<guests, nodes, changes, kind, name, listed, outcome, meant, disturbed>>
        /\ pc = "picker" /\ target' \in listed /\ pc' = "connect" /\ target = Nobody
    BY <1>2 DEF PickerPicks, NothingYet
  <2>2. LoginTypeOK' /\ Reachable' = Reachable
    BY <2>1 DEF Reachable
  <2>3. NothingYet' /\ NoNodeYet' /\ StillOpen'
    BY <2>1, <2>2 DEF NothingYet, NoNodeYet, StillOpen, Asking
  <2>4. SamePlace'
    BY <2>1 DEF SamePlace, Resolved, Led
  <2> QED BY <2>2, <2>3, <2>4
<1>3. CASE PickerQuits
  <2>1. /\ UNCHANGED <<guests, nodes, changes, kind, name, listed, target, meant, disturbed>>
        /\ pc = "picker" /\ pc' = "done" /\ outcome' = "quit"
    BY <1>3 DEF PickerQuits, Ends
  <2>2. LoginTypeOK'
    BY <2>1
  <2>3. NothingYet' /\ NoNodeYet' /\ StillOpen'
    BY <2>1 DEF NothingYet, NoNodeYet, StillOpen, Asking
  <2>4. SamePlace'
    BY <2>1 DEF SamePlace, Resolved, Led
  <2> QED BY <2>2, <2>3, <2>4
<1> QED BY <1>1, <1>2, <1>3

LEMMA ConnectKeeps ==
  ASSUME LoginInv, NEW fails \in BOOLEAN, Connects(fails)
  PROVE  LoginInv'
<1> USE DEF LoginInv, LoginTypeOK
<1>1. /\ pc = "connect" /\ pc' = "done"
      /\ outcome' \in {"failed", "denied", "connected", "refused"}
      /\ outcome' = "denied" => target \notin Reachable
      /\ UNCHANGED <<guests, nodes, changes, kind, name, listed, target, meant>>
      /\ disturbed' = IF fails THEN disturbed \union {"failure"} ELSE disturbed
  BY DEF Connects, Ends, Suffers, Reachable, rules
<1>2. LoginTypeOK'
  BY <1>1 DEF Disturbances
<1>3. NothingYet' /\ NoNodeYet' /\ StillOpen'
  BY <1>1 DEF NothingYet, NoNodeYet, StillOpen, Asking
<1>4. outcome' = "denied" => "taken" \in disturbed'
  BY <1>1 DEF StillOpen
<1>5. SamePlace'
  BY <1>1, <1>4 DEF SamePlace, Resolved, Led
<1> QED BY <1>2, <1>3, <1>5

LEMMA RuleChangeKeeps ==
  ASSUME LoginInv, NEW gs \in SUBSET Guests, NEW ns \in SUBSET WithSSHHost, RulesChange(gs, ns)
  PROVE  LoginInv'
<1> DEFINE suffered == (IF gs # guests THEN {"guests"} ELSE {})
                         \union (IF ns \subseteq nodes THEN {} ELSE {"nodeGiven"})
                         \union (IF guests \subseteq gs /\ nodes \subseteq ns THEN {} ELSE {"taken"})
<1>1. /\ changes < MaxChanges /\ changes' = changes + 1
      /\ guests' = gs /\ nodes' = ns
      /\ meant' = IF Asking THEN meant \union Meaning(name)' ELSE meant
      /\ disturbed' = IF pc = "done" THEN disturbed ELSE disturbed \union suffered
      /\ UNCHANGED <<kind, name, pc, listed, target, outcome>>
  BY DEF RulesChange, session, Asking
<1>2. LoginTypeOK'
  <2>1. Meaning(name)' \subseteq Targets
    BY <1>1, LoginAssumption, FoundAreGuests
    DEF Meaning, NodesNamed, resolveLoginNameGuest, Targets
  <2>2. changes' \in 0..MaxChanges
    BY <1>1, ChangesAreCounted DEF LoginInv, LoginTypeOK
  <2>3. disturbed' \subseteq Disturbances
    BY <1>1 DEF LoginInv, LoginTypeOK, Disturbances
  <2> QED BY <1>1, <2>1, <2>2, <2>3 DEF LoginInv, LoginTypeOK
<1>3. NothingYet'
  BY <1>1 DEF LoginInv, NothingYet, Asking
<1>4. NoNodeYet'
  <2> SUFFICES ASSUME pc = "guests", kind # "connect", "failure" \notin disturbed',
                      NodesNamed(name, ns) # {}
               PROVE  /\ "nodeGiven" \in disturbed'
                      /\ "guests" \in disturbed' \/ GuestMeaning(name)' \subseteq meant'
    BY <1>1 DEF NoNodeYet
  <2>1. /\ disturbed' = disturbed \union suffered /\ "failure" \notin disturbed
        /\ meant \subseteq meant'
        /\ "guests" \notin disturbed' => GuestMeaning(name)' = GuestMeaning(name)
    BY <1>1 DEF GuestMeaning
  <2>2. CASE NodesNamed(name, nodes) = {}
    <3>1. ~(ns \subseteq nodes)
      BY <2>2 DEF NodesNamed
    <3>2. GuestMeaning(name) \subseteq meant
      BY <2>2, MeaningOfGuests DEF LoginInv, NothingYet, Asking
    <3> QED BY <2>1, <3>1, <3>2
  <2>3. CASE NodesNamed(name, nodes) # {}
    BY <2>1, <2>3 DEF LoginInv, NoNodeYet
  <2> QED BY <2>2, <2>3
<1>5. StillOpen'
  <2> SUFFICES ASSUME "taken" \notin disturbed', pc \in {"connect", "picker"}
               PROVE  "taken" \notin disturbed /\ Reachable \subseteq Reachable'
    BY <1>1 DEF LoginInv, StillOpen
  <2>1. "taken" \notin disturbed /\ guests \subseteq gs /\ nodes \subseteq ns
    BY <1>1
  <2> QED BY <1>1, <2>1 DEF Reachable
<1>6. SamePlace'
  BY <1>1 DEF LoginInv, SamePlace, Resolved, Led, Asking
<1> QED BY <1>2, <1>3, <1>4, <1>5, <1>6 DEF LoginInv

LEMMA LoginStepHolds == LoginInv /\ [LoginNext]_loginVars => LoginInv'
<1> SUFFICES ASSUME LoginInv, [LoginNext]_loginVars PROVE LoginInv'
  OBVIOUS
<1>1. CASE UNCHANGED loginVars
  <2>1. UNCHANGED <<guests, nodes, changes, kind, name, pc, listed, target, outcome,
                    meant, disturbed>>
    BY <1>1 DEF loginVars, rules, session, history
  <2>2. /\ Meaning(name)' = Meaning(name) /\ GuestMeaning(name)' = GuestMeaning(name)
        /\ Reachable' = Reachable
    BY <2>1 DEF Meaning, GuestMeaning, Reachable
  <2> QED BY <2>1, <2>2 DEF LoginInv, LoginTypeOK, NothingYet, NoNodeYet, StillOpen, SamePlace,
                            Resolved, Led, Asking
<1>2. CASE LoginNext
  BY <1>2, StartKeeps, NodeLookKeeps, GuestLookKeeps, PickerKeeps, ConnectKeeps, RuleChangeKeeps
  DEF LoginNext
<1> QED BY <1>1, <1>2

LEMMA LoginInductive == LoginSpec => []LoginInv
BY LoginInitHolds, LoginStepHolds, PTL DEF LoginSpec

-----------------------------------------------------------------------------
\* Whoever tries which name and whatever the administrator grants: a session is at
\* one of its questions, with a target that exists.
THEOREM LoginTypeCorrect == LoginSpec => []LoginTypeOK
<1>1. LoginInv => LoginTypeOK
  BY DEF LoginInv
<1> QED BY <1>1, LoginInductive, PTL

\* For any guests, instances and names, however often and whatever the rules change:
\* a console, a command and a transfer are led by a name to what it meant at one
\* moment since they began, and to nothing that was closed all along; a name means
\* one thing under any rules, whoever asks (MeansOneThing). Where a listing fails, or
\* a node is given while the guests change, only the second is claimed
\* (namesANode, then namesAGuest, connectByLoginName or runSFTP).
THEOREM NamesLeadToOnePlace == LoginSpec => []SamePlace
<1>1. LoginInv => SamePlace
  BY DEF LoginInv
<1> QED BY <1>1, LoginInductive, PTL

-----------------------------------------------------------------------------
\* A name with something before its last "@".
LEMMA LastPart ==
  ASSUME NEW s \in Seq(Part) \ {<<>>}, NEW p \in Part
  PROVE  /\ Append(s, p) \in Seq(Part) /\ Len(Append(s, p)) > 1
         /\ Last(Append(s, p)) = p /\ Front(Append(s, p)) = s
<1> DEFINE t == Append(s, p)
<1>1. /\ t \in Seq(Part) /\ Len(t) = Len(s) + 1 /\ Len(s) \in Nat \ {0}
      /\ t[Len(s) + 1] = p /\ \A i \in 1..Len(s) : t[i] = s[i]
  BY AppendProperties, EmptySeq, LenProperties
<1>2. SubSeq(t, 1, Len(s)) = s
  BY <1>1
<1> HIDE DEF t
<1>3. Last(t) = p /\ Front(t) = s /\ Len(t) > 1
  BY <1>1, <1>2 DEF Last, Front
<1> QED BY <1>1, <1>3 DEF t

\* A name that is qualified with an instance is resolved on that instance, and any
\* other everywhere.
LEMMA Resolution ==
  ASSUME NEW n, NEW pool \in SUBSET Guests, NEW visible \in SUBSET Instances
  PROVE  LET qualified == /\ Len(n) > 1 /\ Front(n) # <<"">>
                          /\ \E i \in visible : NodeName[i] = Last(n)
         IN  ResolveGuestAndInstance(n, pool, visible) =
               IF qualified
               THEN resolveGuest(Front(n), {g \in pool : NodeName[Row[g].inst] = Last(n)})
               ELSE resolveGuest(n, pool)
<1>1. \A i \in visible : NodeName[i] # ""
  BY LoginAssumption
<1> QED BY <1>1 DEF ResolveGuestAndInstance, ParseGuestTarget

\* The one guest found matches in a way that is not any other's.
LEMMA FoundByOneWay ==
  ASSUME NEW n, NEW pool \in SUBSET Guests, NEW g \in pool, resolveGuest(n, pool) = {g}
  PROVE  \E f \in {"vmid", "id", "name"} :
           n = Said(g)[f] /\ \A h \in pool \ {g} : n # Said(h)[f]
<1> DEFINE byVmid == {h \in pool : n = <<Row[h].vmid>>}
           byID == {h \in pool : n = <<Row[h].id>>}
           byName == {h \in pool : n = Row[h].name}
<1>1. CASE byVmid # {}
  <2>1. byVmid = {g}
    BY <1>1 DEF resolveGuest
  <2>2. n = Said(g)["vmid"] /\ \A h \in pool \ {g} : n # Said(h)["vmid"]
    BY <2>1 DEF Said
  <2> QED BY <2>2
<1>2. CASE byVmid = {} /\ byID # {}
  <2>1. byID = {g}
    BY <1>2 DEF resolveGuest
  <2>2. n = Said(g)["id"] /\ \A h \in pool \ {g} : n # Said(h)["id"]
    BY <2>1 DEF Said
  <2> QED BY <2>2
<1>3. CASE byVmid = {} /\ byID = {}
  <2>1. byName = {g}
    BY <1>3 DEF resolveGuest
  <2>2. n = Said(g)["name"] /\ \A h \in pool \ {g} : n # Said(h)["name"]
    BY <2>1 DEF Said
  <2> QED BY <2>2
<1> QED BY <1>1, <1>2, <1>3

\* The two ways in which a name says a guest.
LEMMA PlainWay ==
  ASSUME NEW n, NEW g \in Guests, NEW f \in {"vmid", "id", "name"}
  PROVE  <<f, "">> \in Ways(n, g) <=> n = Said(g)[f]
BY DEF Ways, Said

LEMMA QualifiedWay ==
  ASSUME NEW n, NEW g \in Guests, NEW f \in {"vmid", "id", "name"}, NEW on, on # ""
  PROVE  <<f, on>> \in Ways(n, g) <=> on = NodeName[Row[g].inst] /\ n = Append(Said(g)[f], on)
BY DEF Ways, Said

LEMMA OnlyOnItsInstance ==
  ASSUME NEW n, NEW g \in Guests, NEW f \in {"vmid", "id", "name"}, NEW on, on # "",
         <<f, on>> \in Ways(n, g)
  PROVE  on = NodeName[Row[g].inst] /\ n = Append(Said(g)[f], on)
BY DEF Ways, Said

\* A name that finds one guest means it in a way in which it means no other.
LEMMA OneFoundIsMeant ==
  ASSUME NEW n \in Seq(Part), NEW pool \in SUBSET Guests, NEW g \in pool,
         NEW visible \in SUBSET Instances, ResolveGuestAndInstance(n, pool, visible) = {g}
  PROVE  \E w \in Ways(n, g) : \A h \in pool \ {g} : w \notin Ways(n, h)
<1> DEFINE there == {h \in pool : NodeName[Row[h].inst] = Last(n)}
<1>1. CASE ResolveGuestAndInstance(n, pool, visible) = resolveGuest(n, pool)
  <2>1. PICK f \in {"vmid", "id", "name"} :
           n = Said(g)[f] /\ \A h \in pool \ {g} : n # Said(h)[f]
    BY <1>1, FoundByOneWay
  <2>2. ASSUME NEW h \in pool
        PROVE  <<f, "">> \in Ways(n, h) <=> n = Said(h)[f]
    <3>1. h \in Guests
      OBVIOUS
    <3> QED BY <3>1, PlainWay
  <2> QED BY <2>1, <2>2
<1>2. CASE /\ Len(n) > 1
           /\ ResolveGuestAndInstance(n, pool, visible) = resolveGuest(Front(n), there)
  <2>1. g \in there /\ there \in SUBSET Guests
    BY <1>2 DEF resolveGuest
  <2>2. PICK f \in {"vmid", "id", "name"} :
           Front(n) = Said(g)[f] /\ \A h \in there \ {g} : Front(n) # Said(h)[f]
    BY <1>2, <2>1, FoundByOneWay
  <2>3. n = Append(Front(n), Last(n)) /\ Front(n) \in Seq(Part) /\ Last(n) \in Part
    BY <1>2 DEF Front, Last
  <2>4. Last(n) # ""
    BY <2>1, LoginAssumption
  <2>5. <<f, Last(n)>> \in Ways(n, g)
    BY <2>1, <2>2, <2>3, <2>4, QualifiedWay
  <2>6. ASSUME NEW h \in pool \ {g}, <<f, Last(n)>> \in Ways(n, h)
        PROVE  FALSE
    <3>1. Last(n) = NodeName[Row[h].inst] /\ n = Append(Said(h)[f], Last(n))
      <4>1. h \in Guests
        OBVIOUS
      <4> QED BY <2>2, <2>4, <2>6, <4>1, OnlyOnItsInstance
    <3>2. Front(n) = Said(h)[f]
      <4>1. Said(h)[f] \in Seq(Part) \ {<<>>}
        <5>1. h \in Guests
          OBVIOUS
        <5> QED BY <5>1, SaidIsAName
      <4> QED BY <2>3, <3>1, <4>1, LastPart
    <3> QED BY <2>2, <2>6, <3>1, <3>2
  <2> QED BY <2>5, <2>6
<1> QED BY <1>1, <1>2, Resolution

\* For any guests and names: the guest a name is resolved to is meant in a way in
\* which the name means none of the others (resolveGuest and ParseGuestTarget), so
\* an ambiguity is an error and never a choice.
THEOREM NobodyGuesses == LoginSpec => NeverAGuess
<1>1. ASSUME LoginInv, LooksForGuest(FALSE), target' # target
      PROVE  \E w \in Ways(name, target'.of) :
               \A h \in guests \ {target'.of} : w \notin Ways(name, h)
  <2>1. guests \in SUBSET Guests /\ name \in Seq(Part)
    BY <1>1, LoginAssumption DEF LoginInv, LoginTypeOK
  <2>2. PICK visible \in Qualifiers :
          /\ Cardinality(ResolveGuestAndInstance(name, guests, visible)) = 1
          /\ \E g \in ResolveGuestAndInstance(name, guests, visible) : target' = Guest(g)
    BY <1>1 DEF LooksForGuest
  <2>3. visible \in SUBSET Instances
    BY <2>1, HostsAreInstances DEF Qualifiers
  <2>4. PICK g \in guests :
          ResolveGuestAndInstance(name, guests, visible) = {g} /\ target' = Guest(g)
    BY <2>1, <2>2, OneFound, FoundAreGuests
  <2>5. target'.of = g
    BY <2>4 DEF Guest
  <2> QED BY <2>1, <2>3, <2>4, <2>5, OneFoundIsMeant
<1> QED BY <1>1, LoginInductive, PTL DEF LoginSpec, NeverAGuess

-----------------------------------------------------------------------------
\* No guest is listed twice: a vmid is unique on its instance (resolve.go:162), as
\* long as no row of guests has been doubled.
NoGuestTwice == \A g, h \in Guests : Row[g].inst = Row[h].inst /\ Row[g].id = Row[h].id => g = h

LEMMA OnItsInstance ==
  ASSUME NEW pool \in SUBSET Guests, NEW g \in pool,
         NEW said \in Seq(Part) \ {<<>>, <<"">>}
  PROVE  resolveLoginNameGuest(Append(said, NodeName[Row[g].inst]), pool) =
           resolveGuest(said, {h \in pool : Row[h].inst = Row[g].inst})
<1> DEFINE on == NodeName[Row[g].inst]
           n == Append(said, on)
<1>1. Row[g].inst \in namedInstances(pool) /\ on \in Part
  BY LoginAssumption DEF namedInstances
<1>2. Len(n) > 1 /\ Last(n) = on /\ Front(n) = said
  BY <1>1, LastPart
<1>3. {h \in pool : NodeName[Row[h].inst] = on} = {h \in pool : Row[h].inst = Row[g].inst}
  BY LoginAssumption
<1> HIDE DEF n
<1>4. resolveLoginNameGuest(n, pool) = resolveGuest(said, {h \in pool : NodeName[Row[h].inst] = on})
  <2>1. namedInstances(pool) \in SUBSET Instances
    BY HostsAreInstances
  <2>2. /\ Len(n) > 1 /\ Front(n) # <<"">>
        /\ \E i \in namedInstances(pool) : NodeName[i] = Last(n)
    BY <1>1, <1>2
  <2>3. ResolveGuestAndInstance(n, pool, namedInstances(pool)) =
          resolveGuest(Front(n), {h \in pool : NodeName[Row[h].inst] = Last(n)})
    BY <2>1, <2>2, Resolution
  <2> QED BY <1>2, <2>3 DEF resolveLoginNameGuest
<1> QED BY <1>3, <1>4 DEF n

\* Unless a row is doubled, every reachable guest answers to its id on its instance,
\* and to its name there if that is its alone; every reachable node answers to its
\* name, if that is not the administrator's (ResolveGuestAndInstance, namesANode).
THEOREM EverybodyHasAName == ASSUME NoGuestTwice PROVE LoginSpec => []EveryTargetHasAName
<1>1. LoginInv => EveryTargetHasAName
  <2> SUFFICES ASSUME LoginInv PROVE EveryTargetHasAName
    OBVIOUS
  <2>1. guests \in SUBSET Guests /\ nodes \in SUBSET Instances
    BY LoginAssumption DEF LoginInv, LoginTypeOK
  <2>2. ASSUME NEW g \in guests
        PROVE  resolveLoginNameGuest(<<Row[g].id, NodeName[Row[g].inst]>>, guests) = {g}
    <3> DEFINE there == {h \in guests : Row[h].inst = Row[g].inst}
    <3>1. <<Row[g].id>> \in Seq(Part) \ {<<>>, <<"">>}
      BY <2>1, SaidIsAName DEF Said
    <3>2. <<Row[g].id, NodeName[Row[g].inst]>> = Append(<<Row[g].id>>, NodeName[Row[g].inst])
      OBVIOUS
    <3>3. {h \in there : <<Row[g].id>> = <<Row[h].vmid>>} = {}
      BY <2>1, LoginAssumption
    <3>4. {h \in there : <<Row[g].id>> = <<Row[h].id>>} = {g}
      BY <2>1, NoGuestTwice DEF NoGuestTwice
    <3>5. resolveGuest(<<Row[g].id>>, there) = {g}
      BY <3>3, <3>4 DEF resolveGuest
    <3> QED BY <2>1, <3>1, <3>2, <3>5, OnItsInstance
  <2>3. ASSUME NEW g \in guests, NamedAlone(g, guests)
        PROVE  resolveLoginNameGuest(Append(Row[g].name, NodeName[Row[g].inst]), guests) = {g}
    <3> DEFINE there == {h \in guests : Row[h].inst = Row[g].inst}
    <3>1. Row[g].name \in Seq(Part) \ {<<>>, <<"">>}
      BY <2>1, <2>3, LoginAssumption DEF NamedAlone
    <3>2. \A h \in there \ {g} : Row[g].name \notin {<<Row[h].vmid>>, <<Row[h].id>>, Row[h].name}
      BY <2>3 DEF NamedAlone
    <3>3. resolveGuest(Row[g].name, there) = {g}
      BY <3>2 DEF resolveGuest
    <3> QED BY <2>1, <3>1, <3>3, OnItsInstance
  <2>4. ASSUME NEW i \in nodes, ~isReservedLoginName(<<NodeName[i]>>)
        PROVE  NodesNamed(<<NodeName[i]>>, nodes) = {i}
    <3>1. \A j \in nodes : <<NodeName[i]>> = <<NodeName[j]>> => i = j
      BY <2>1, LoginAssumption
    <3> QED BY <2>4, <3>1 DEF NodesNamed
  <2> QED BY <2>2, <2>3, <2>4 DEF EveryTargetHasAName
<1> QED BY <1>1, LoginInductive, PTL

\* Nobody else is called what the user is: no node, and not one guest, answers
\* to the user's own name.
OwnNameIsFree ==
  /\ NodesNamed(OwnName, nodes) = {}
  /\ Cardinality(resolveLoginNameGuest(OwnName, guests)) # 1

\* A command under the user's own name is on its way to proxpass.
KeepsToProxpass ==
  kind = "command" /\ name = OwnName
  => pc \in {"nodes", "guests", "done"} /\ outcome \in {"none", "cli"}

\* A user keeps proxpass's commands under their own name as long as no machine
\* they reach has it: a name nobody has is what the comment in guestcommand.go
\* needs, and it reserves only one.
THEOREM FreeNameIsProxpass == LoginSpec /\ []OwnNameIsFree => []OwnNameMeansProxpass
<1>1. LoginInit => KeepsToProxpass
  BY DEF LoginInit, KeepsToProxpass
<1>2. KeepsToProxpass /\ OwnNameIsFree /\ [LoginNext]_loginVars => KeepsToProxpass'
  <2> SUFFICES ASSUME KeepsToProxpass, OwnNameIsFree, [LoginNext]_loginVars
               PROVE  KeepsToProxpass'
    OBVIOUS
  <2> USE DEF KeepsToProxpass
  <2>1. ASSUME NEW k \in Kinds, NEW n \in LoginNames, Starts(k, n) PROVE KeepsToProxpass'
    BY <2>1 DEF Starts, Ends
  <2>2. ASSUME NEW fails \in BOOLEAN, LooksForNode(fails) PROVE KeepsToProxpass'
    <3>1. /\ kind' = kind /\ name' = name /\ outcome' = outcome
          /\ name = OwnName => pc' = "guests"
      BY <2>2 DEF LooksForNode, NodesFound, OwnNameIsFree
    <3> QED BY <3>1
  <2>3. ASSUME NEW fails \in BOOLEAN, LooksForGuest(fails) PROVE KeepsToProxpass'
    <3>1. kind' = kind /\ name' = name
      BY <2>3 DEF LooksForGuest
    <3>2. ASSUME kind = "command", name = OwnName PROVE pc' = "done" /\ outcome' = "cli"
      <4>1. Cardinality(resolveLoginNameGuest(name, guests)) # 1
        BY <3>2 DEF OwnNameIsFree
      <4>2. Qualifiers = {namedInstances(guests)}
        BY <3>2 DEF Qualifiers
      <4> QED BY <2>3, <3>2, <4>1, <4>2 DEF LooksForGuest, Ends, resolveLoginNameGuest
    <3> QED BY <3>1, <3>2
  <2>4. ASSUME NEW fails \in BOOLEAN, PickerLists(fails) PROVE KeepsToProxpass'
    BY <2>4 DEF PickerLists
  <2>5. ASSUME NEW t \in listed, PickerPicks(t) PROVE KeepsToProxpass'
    BY <2>5 DEF PickerPicks
  <2>6. CASE PickerQuits
    BY <2>6 DEF PickerQuits
  <2>7. ASSUME NEW fails \in BOOLEAN, Connects(fails) PROVE KeepsToProxpass'
    BY <2>7 DEF Connects
  <2>8. ASSUME NEW gs \in SUBSET Guests, NEW ns \in SUBSET WithSSHHost,
               RulesChange(gs, ns) \/ UNCHANGED loginVars
        PROVE  KeepsToProxpass'
    BY <2>8 DEF RulesChange, loginVars, session
  <2> QED
    BY <2>1, <2>2, <2>3, <2>4, <2>5, <2>6, <2>7, <2>8 DEF LoginNext
<1>3. KeepsToProxpass => OwnNameMeansProxpass
  BY DEF KeepsToProxpass, OwnNameMeansProxpass
<1> QED
  BY <1>1, <1>2, <1>3, PTL DEF LoginSpec

(***************************************************************************)
(* The picker                                                              *)
(***************************************************************************)
PickerInv == PickerTypeOK /\ shown \in Seq(PickerRows) /\ ListIsInOrder

-----------------------------------------------------------------------------
\* The cycle of columns.

LEMMA Columns ==
  /\ Len(sortCycle) = 4 /\ DOMAIN sortCycle = 1..4
  /\ ToSet(sortCycle) = {"id", "name", "status", "host"}
  /\ \A i \in 1..4 : sortCycle[i] \in ToSet(sortCycle)
  /\ SortModes = {"unset", "id", "name", "status", "host"}
<1>1. Len(sortCycle) = 4 /\ DOMAIN sortCycle = 1..4
  BY DEF sortCycle
<1>2. /\ sortCycle[1] = "id" /\ sortCycle[2] = "name"
      /\ sortCycle[3] = "status" /\ sortCycle[4] = "host"
  BY DEF sortCycle
<1>3. \A i : i \in 1..4 <=> i \in {1, 2, 3, 4}
  OBVIOUS
<1>4. ToSet(sortCycle) = {"id", "name", "status", "host"}
  BY <1>1, <1>2, <1>3 DEF ToSet
<1>5. \A i \in 1..4 : sortCycle[i] \in ToSet(sortCycle)
  BY <1>1 DEF ToSet
<1> QED BY <1>1, <1>4, <1>5 DEF SortModes

LEMMA ModesCycle ==
  ASSUME NEW m \in SortModes
  PROVE  nextMode(m) \in SortModes /\ prevMode(m) \in SortModes
<1>1. CycleIndex(m) \in 0..4
  <2>1. CASE m = "unset"
    BY <2>1 DEF CycleIndex
  <2>2. CASE m # "unset"
    <3>1. m \in ToSet(sortCycle)
      BY <2>2 DEF SortModes
    <3>2. \E i \in DOMAIN sortCycle : sortCycle[i] = m
      BY <3>1 DEF ToSet
    <3>3. PositionOf(m, sortCycle) \in DOMAIN sortCycle
      BY <3>2 DEF PositionOf
    <3>4. CycleIndex(m) \in 1..4
      BY <2>2, <3>3, Columns DEF CycleIndex
    <3> QED BY <3>4
  <2> QED BY <2>1, <2>2
<1>2. (CycleIndex(m) % 4) + 1 \in 1..4
  BY <1>1
<1>3. nextMode(m) \in ToSet(sortCycle)
  BY <1>2, Columns DEF nextMode
<1>4. prevMode(m) \in ToSet(sortCycle)
  <2>1. CASE CycleIndex(m) <= 1
    BY <2>1, Columns DEF prevMode, Last
  <2>2. CASE ~(CycleIndex(m) <= 1)
    <3>1. CycleIndex(m) - 1 \in 1..4
      BY <1>1, <2>2
    <3> QED BY <2>2, <3>1, Columns DEF prevMode
  <2> QED BY <2>1, <2>2
<1> QED BY <1>3, <1>4 DEF SortModes

-----------------------------------------------------------------------------
\* All rows in some order.

LEMMA Arranged ==
  ASSUME NEW s \in SetToSeqs(PickerRows)
  PROVE  /\ s \in Seq(PickerRows) /\ DOMAIN s = 1..Len(s)
         /\ Len(s) = Cardinality(PickerRows) /\ Len(s) \in Nat
         /\ \A i, j \in 1..Len(s) : i # j => s[i] # s[j]
         /\ ToSet(s) = PickerRows
<1> DEFINE n == Cardinality(PickerRows)
<1>1. IsFiniteSet(PickerRows) /\ n \in Nat
  BY PickerAssumption, FS_CardinalityType
<1>2. s \in [1..n -> PickerRows] /\ \A i, j \in 1..n : i # j => s[i] # s[j]
  BY DEF SetToSeqs
<1>3. s \in Seq(PickerRows) /\ Len(s) = n /\ DOMAIN s = 1..n
  BY <1>1, <1>2
<1>4. s \in Injection(1..n, PickerRows)
  BY <1>2 DEF Injection, IsInjective
<1>5. Cardinality(1..n) = n
  BY <1>1, FS_Interval
<1>6. s \in Surjection(1..n, PickerRows)
  BY <1>1, <1>4, <1>5, FS_Injection
<1>7. ToSet(s) = PickerRows
  BY <1>2, <1>3, <1>6 DEF ToSet, Surjection
<1> QED BY <1>1, <1>2, <1>3, <1>7

LEMMA RowHasPosition ==
  ASSUME NEW s \in SetToSeqs(PickerRows), NEW r \in PickerRows
  PROVE  PositionOf(r, s) \in 1..Len(s) /\ s[PositionOf(r, s)] = r
<1>1. \E i \in DOMAIN s : s[i] = r
  BY Arranged DEF ToSet
<1>2. PositionOf(r, s) \in DOMAIN s /\ s[PositionOf(r, s)] = r
  BY <1>1 DEF PositionOf
<1> QED BY <1>2, Arranged

LEMMA SortedRows ==
  ASSUME NEW m \in SortModes
  PROVE  SortRows(m) \in SetToSeqs(PickerRows)
<1>1. Order \in [ToSet(sortCycle) -> SetToSeqs(PickerRows)]
  BY PickerAssumption
<1> QED BY <1>1, Columns DEF SortRows

-----------------------------------------------------------------------------
\* In a finite set with a strict total order, of which B gives what is above each,
\* each place is taken by one.
LEMMA Ranks ==
  ASSUME NEW M, IsFiniteSet(M), NEW B \in [M -> SUBSET M],
         \A r \in M : r \notin B[r],
         \A r \in M : \A q \in B[r] : B[q] \subseteq B[r],
         \A q, r \in M : q \in B[r] \/ r \in B[q] \/ q = r
  PROVE  /\ \A q, r \in M : q \in B[r] => Cardinality(B[q]) < Cardinality(B[r])
         /\ \A i \in 1..Cardinality(M) : \E r \in M : Cardinality(B[r]) = i - 1
         /\ \A r \in M : Cardinality(B[r]) + 1 \in 1..Cardinality(M)
<1> DEFINE n == Cardinality(M)
           rank == [r \in M |-> Cardinality(B[r]) + 1]
<1>1. n \in Nat
  BY FS_CardinalityType
<1>2. \A r \in M : IsFiniteSet(B[r]) /\ Cardinality(B[r]) \in Nat
  BY FS_Subset, FS_CardinalityType
<1>3. ASSUME NEW q \in M, NEW r \in M, q \in B[r]
      PROVE  Cardinality(B[q]) < Cardinality(B[r])
  <2>1. B[q] \in SUBSET B[r] /\ B[q] # B[r]
    BY <1>3
  <2>2. Cardinality(B[q]) <= Cardinality(B[r]) /\ Cardinality(B[r]) # Cardinality(B[q])
    BY <1>2, <2>1, FS_Subset
  <2> QED BY <1>2, <2>2
<1>4. ASSUME NEW r \in M PROVE Cardinality(B[r]) + 1 \in 1..n
  <2>1. B[r] \in SUBSET M /\ B[r] # M
    BY <1>4
  <2>2. Cardinality(B[r]) <= n /\ n # Cardinality(B[r])
    BY <2>1, FS_Subset
  <2> QED BY <1>1, <1>2, <2>2
<1>5. rank \in [M -> 1..n]
  BY <1>4
<1>6. ASSUME NEW q \in M, NEW r \in M, rank[q] = rank[r] PROVE q = r
  <2>1. Cardinality(B[q]) = Cardinality(B[r])
    BY <1>2, <1>6
  <2> QED BY <1>2, <1>3, <2>1
<1>7. rank \in Injection(M, 1..n)
  BY <1>5, <1>6 DEF Injection, IsInjective
<1>8. IsFiniteSet(1..n) /\ Cardinality(1..n) = n
  BY <1>1, FS_Interval
<1>9. rank \in Surjection(M, 1..n)
  BY <1>7, <1>8, FS_Injection
<1>10. ASSUME NEW i \in 1..n PROVE \E r \in M : Cardinality(B[r]) = i - 1
  <2>1. PICK r \in M : rank[r] = i
    BY <1>9 DEF Surjection
  <2> QED BY <1>2, <2>1
<1> QED BY <1>3, <1>4, <1>10

\* The filtered list: every row that matches, the better above.
LEMMA Filtered ==
  ASSUME NEW rows \in SetToSeqs(PickerRows), NEW f \in BoundedSeq(Letters, MaxFilter),
         ~IsBlank(f)
  PROVE  LET s == filterRows(rows, f) IN
           /\ s \in Seq(PickerRows) /\ Len(s) <= Len(rows)
           /\ ToSet(s) = DOMAIN Score[f]
           /\ \A i, j \in DOMAIN s : i < j => Score[f][s[i]] >= Score[f][s[j]]
<1> DEFINE M == ToSet(rows) \intersect DOMAIN Score[f]
           B == [r \in M |-> Above(r, rows, f)]
           n == Cardinality(M)
           s == [i \in 1..n |-> CHOOSE r \in M : Cardinality(Above(r, rows, f)) = i - 1]
<1>1. s = filterRows(rows, f)
  BY DEF filterRows
<1>2. /\ DOMAIN Score[f] \subseteq PickerRows
      /\ \A r \in DOMAIN Score[f] : Score[f][r] \in Int
  BY PickerAssumption DEF IsBlank
<1>3. /\ M = DOMAIN Score[f] /\ IsFiniteSet(M) /\ n \in Nat
      /\ n <= Len(rows) /\ M \subseteq PickerRows
  <2>1. ToSet(rows) = PickerRows /\ Len(rows) = Cardinality(PickerRows)
    BY Arranged
  <2>2. M = DOMAIN Score[f] /\ M \in SUBSET PickerRows
    BY <1>2, <2>1
  <2>3. IsFiniteSet(PickerRows)
    BY PickerAssumption
  <2>4. IsFiniteSet(M) /\ n <= Cardinality(PickerRows)
    BY <2>2, <2>3, FS_Subset
  <2>5. n \in Nat
    BY <2>4, FS_CardinalityType
  <2> QED BY <2>1, <2>2, <2>4, <2>5
<1>4. ASSUME NEW q \in M, NEW r \in M
      PROVE  /\ PositionOf(q, rows) \in Nat
             /\ PositionOf(q, rows) = PositionOf(r, rows) => q = r
             /\ Score[f][q] \in Int
             /\ q \in B[r] <=> \/ Score[f][q] > Score[f][r]
                               \/ /\ Score[f][q] = Score[f][r]
                                  /\ PositionOf(q, rows) < PositionOf(r, rows)
  <2>1. q \in PickerRows /\ r \in PickerRows
    BY <1>3
  <2>2. /\ PositionOf(q, rows) \in 1..Len(rows) /\ rows[PositionOf(q, rows)] = q
        /\ PositionOf(r, rows) \in 1..Len(rows) /\ rows[PositionOf(r, rows)] = r
    BY <2>1, RowHasPosition
  <2>3. Score[f][q] \in Int
    BY <1>2
  <2>4. q \in B[r] <=> \/ Score[f][q] > Score[f][r]
                       \/ /\ Score[f][q] = Score[f][r]
                          /\ PositionOf(q, rows) < PositionOf(r, rows)
    BY DEF Above
  <2> QED BY <2>2, <2>3, <2>4
<1>5. B \in [M -> SUBSET M]
  BY DEF Above
<1> HIDE DEF M, B
<1>6. /\ \A r \in M : r \notin B[r]
      /\ \A r \in M : \A q \in B[r] : B[q] \subseteq B[r]
      /\ \A q, r \in M : q \in B[r] \/ r \in B[q] \/ q = r
  <2>1. \A r \in M : r \notin B[r]
    BY <1>4
  <2>2. ASSUME NEW r \in M, NEW q \in B[r], NEW p \in B[q] PROVE p \in B[r]
    <3>1. q \in M
      BY <1>5, <2>2
    <3>2. p \in M
      BY <1>5, <2>2, <3>1
    <3>3. \/ Score[f][q] > Score[f][r]
          \/ Score[f][q] = Score[f][r] /\ PositionOf(q, rows) < PositionOf(r, rows)
      BY <1>4, <2>2, <3>1
    <3>4. \/ Score[f][p] > Score[f][q]
          \/ Score[f][p] = Score[f][q] /\ PositionOf(p, rows) < PositionOf(q, rows)
      BY <1>4, <2>2, <3>1, <3>2
    <3>5. /\ Score[f][p] \in Int /\ Score[f][q] \in Int /\ Score[f][r] \in Int
          /\ PositionOf(p, rows) \in Nat /\ PositionOf(q, rows) \in Nat
          /\ PositionOf(r, rows) \in Nat
      BY <1>4, <3>1, <3>2
    <3>6. \/ Score[f][p] > Score[f][r]
          \/ Score[f][p] = Score[f][r] /\ PositionOf(p, rows) < PositionOf(r, rows)
      BY <3>3, <3>4, <3>5
    <3> QED BY <1>4, <3>2, <3>6
  <2>3. ASSUME NEW q \in M, NEW r \in M, q \notin B[r], r \notin B[q] PROVE q = r
    <3>1. /\ Score[f][q] \in Int /\ Score[f][r] \in Int
          /\ PositionOf(q, rows) \in Nat /\ PositionOf(r, rows) \in Nat
      BY <1>4
    <3>2. /\ ~(Score[f][q] > Score[f][r]) /\ ~(Score[f][r] > Score[f][q])
      BY <1>4, <2>3
    <3>3. Score[f][q] = Score[f][r]
      BY <3>1, <3>2
    <3>4. ~(PositionOf(q, rows) < PositionOf(r, rows)) /\ ~(PositionOf(r, rows) < PositionOf(q, rows))
      BY <1>4, <2>3, <3>3
    <3>5. PositionOf(q, rows) = PositionOf(r, rows)
      BY <3>1, <3>4
    <3> QED BY <1>4, <3>5
  <2> QED BY <2>1, <2>2, <2>3
<1>7. /\ \A q, r \in M : q \in B[r] => Cardinality(B[q]) < Cardinality(B[r])
      /\ \A i \in 1..n : \E r \in M : Cardinality(B[r]) = i - 1
      /\ \A r \in M : Cardinality(B[r]) + 1 \in 1..n
  BY <1>3, <1>5, <1>6, Ranks
<1>8. \A r \in M : B[r] = Above(r, rows, f)
  BY DEF B
<1>9. \A i \in 1..n : s[i] \in M /\ Cardinality(B[s[i]]) = i - 1
  <2> SUFFICES ASSUME NEW i \in 1..n PROVE s[i] \in M /\ Cardinality(B[s[i]]) = i - 1
    OBVIOUS
  <2>1. \E r \in M : Cardinality(Above(r, rows, f)) = i - 1
    BY <1>7, <1>8
  <2>2. s[i] = CHOOSE r \in M : Cardinality(Above(r, rows, f)) = i - 1
    OBVIOUS
  <2>3. s[i] \in M /\ Cardinality(Above(s[i], rows, f)) = i - 1
    BY <2>1, <2>2
  <2> QED BY <1>8, <2>3
<1>10. DOMAIN s = 1..n
  OBVIOUS
<1>11. s \in [1..n -> PickerRows]
  BY <1>3, <1>9
<1> HIDE DEF s
<1>12. s \in Seq(PickerRows) /\ Len(s) = n
  BY <1>3, <1>11
<1>13. ASSUME NEW r \in M PROVE \E i \in 1..n : s[i] = r
  <2> DEFINE i == Cardinality(B[r]) + 1
  <2>1. i \in 1..n
    BY <1>7
  <2>2. s[i] \in M /\ Cardinality(B[s[i]]) = i - 1
    BY <1>9, <2>1
  <2>3. Cardinality(B[s[i]]) = Cardinality(B[r])
    <3>1. Cardinality(B[r]) \in Int
      BY <1>5, <1>3, FS_Subset, FS_CardinalityType
    <3> QED BY <2>2, <3>1
  <2>4. s[i] \notin B[r] /\ r \notin B[s[i]]
    <3>1. Cardinality(B[r]) \in Int
      BY <1>5, <1>3, FS_Subset, FS_CardinalityType
    <3> QED BY <1>7, <2>2, <2>3, <3>1
  <2>5. s[i] = r
    BY <1>6, <2>2, <2>4
  <2> QED BY <2>1, <2>5
<1>14. ToSet(s) = M
  BY <1>9, <1>10, <1>13 DEF ToSet
<1>15. ASSUME NEW i \in 1..n, NEW j \in 1..n, i < j
       PROVE  Score[f][s[i]] >= Score[f][s[j]]
  <2>1. s[i] \in M /\ s[j] \in M
    BY <1>9
  <2>2. s[j] \notin B[s[i]]
    <3>1. Cardinality(B[s[j]]) = j - 1 /\ Cardinality(B[s[i]]) = i - 1
      BY <1>9
    <3> QED BY <1>7, <1>15, <2>1, <3>1
  <2>3. ~(Score[f][s[j]] > Score[f][s[i]]) /\ Score[f][s[i]] \in Int /\ Score[f][s[j]] \in Int
    BY <1>4, <2>1, <2>2
  <2> QED BY <2>3
<1> QED BY <1>1, <1>3, <1>10, <1>14, <1>15, <1>12

-----------------------------------------------------------------------------
\* Where the screen stands.

LEMMA Scrolled ==
  ASSUME height \in Int, offset \in Int, NEW n \in Nat, NEW c \in 0..(n - 1)
  PROVE  /\ scrollToCursor(c, n) \in 0..(n - 1)
         /\ scrollToCursor(c, n) <= c /\ c < scrollToCursor(c, n) + listRows
<1>1. listRows \in Int /\ listRows >= 3
  BY DEF listRows, reservedRows, minListRows
<1> HIDE DEF listRows
<1> QED BY <1>1 DEF scrollToCursor, Greater, Lesser

LEMMA FilterIsText ==
  ASSUME NEW f
  PROVE  f \in BoundedSeq(Letters, MaxFilter) <=> f \in Seq(Letters) /\ Len(f) <= MaxFilter
<1>1. MaxFilter \in Nat
  BY PickerAssumption
<1>2. BoundedSeq(Letters, MaxFilter) = UNION {[1..m -> Letters] : m \in 0..MaxFilter}
  BY DEF BoundedSeq, SeqOf
<1>3. ASSUME NEW m \in 0..MaxFilter, f \in [1..m -> Letters]
      PROVE  f \in Seq(Letters) /\ Len(f) <= MaxFilter
  <2>1. f \in Seq(Letters) /\ Len(f) = m
    BY <1>1, <1>3
  <2> QED BY <2>1, <1>1
<1>4. ASSUME f \in Seq(Letters), Len(f) <= MaxFilter
      PROVE  Len(f) \in 0..MaxFilter /\ f \in [1..Len(f) -> Letters]
  BY <1>1, <1>4
<1> QED BY <1>2, <1>3, <1>4

-----------------------------------------------------------------------------
\* One lemma for each way to change the list.

LEMMA NothingIsText == <<>> \in BoundedSeq(Letters, MaxFilter)
<1> DEFINE e == <<>>
<1>1. e \in Seq(Letters) /\ Len(e) = 0
  OBVIOUS
<1>2. MaxFilter \in Nat
  BY PickerAssumption
<1> HIDE DEF e
<1>3. Len(e) <= MaxFilter
  BY <1>1, <1>2
<1>4. e \in BoundedSeq(Letters, MaxFilter)
  BY <1>1, <1>3, FilterIsText
<1> QED BY <1>4 DEF e

LEMMA PickerInitHolds == PickerInit => PickerInv
<1> SUFFICES ASSUME PickerInit PROVE PickerInv
  OBVIOUS
<1>1. all = SortRows("unset") /\ shown = all /\ sort = "unset" /\ filter = <<>>
  BY DEF PickerInit, SortRows
<1>2. "unset" \in SortModes
  BY DEF SortModes
<1>3. all \in SetToSeqs(PickerRows)
  BY <1>1, <1>2, SortedRows
<1>4. shown \in Seq(PickerRows) /\ ToSet(shown) = PickerRows /\ Len(shown) \in Nat
  BY <1>1, <1>3, Arranged
<1>5. filter \in BoundedSeq(Letters, MaxFilter)
  BY <1>1, NothingIsText
<1>6. /\ cursor \in 0..Greater(Len(shown) - 1, 0) /\ offset \in 0..Greater(Len(shown) - 1, 0)
  BY <1>4 DEF PickerInit, Greater
<1>7. PickerTypeOK
  BY <1>1, <1>2, <1>3, <1>4, <1>5, <1>6 DEF PickerTypeOK, PickerInit
<1> QED BY <1>1, <1>4, <1>7 DEF PickerInv, ListIsInOrder

\* What setFilter makes of the list.
LEMMA FilterResult ==
  ASSUME PickerInv, NEW f \in BoundedSeq(Letters, MaxFilter), setFilter(f),
         height' = height, state' = state
  PROVE  PickerInv' /\ cursor' = 0 /\ offset' = 0 /\ sort' = sort
<1>1. /\ filter' = f /\ sort' = sort /\ cursor' = 0 /\ offset' = 0
      /\ all' = IF f = <<>> THEN SortRows(sort) ELSE all
      /\ shown' = IF f = <<>> THEN all' ELSE filterRows(all, f)
  BY DEF setFilter
<1>2. all' \in SetToSeqs(PickerRows)
  BY <1>1, SortedRows DEF PickerInv, PickerTypeOK
<1>3. /\ shown' \in Seq(PickerRows) /\ Len(shown') <= Len(all')
      /\ ToSet(shown') \subseteq PickerRows /\ ListIsInOrder'
  <2>1. CASE f = <<>>
    <3>1. shown' = all'
      BY <1>1, <2>1
    <3>2. shown' \in Seq(PickerRows) /\ ToSet(shown') = PickerRows /\ Len(shown') \in Nat
      BY <1>2, <3>1, Arranged
    <3>3. ListIsInOrder'
      BY <1>1, <2>1, <3>1 DEF ListIsInOrder, SortRows
    <3> QED BY <3>1, <3>2, <3>3
  <2>2. CASE f # <<>> /\ IsBlank(f)
    <3>1. shown' = all /\ all' = all
      BY <1>1, <2>2 DEF filterRows
    <3>2. shown' \in Seq(PickerRows) /\ ToSet(shown') = PickerRows /\ Len(shown') \in Nat
      BY <1>2, <3>1, Arranged
    <3>3. ListIsInOrder'
      BY <1>1, <2>2, <3>1 DEF ListIsInOrder, IsBlank
    <3> QED BY <3>1, <3>2, <3>3
  <2>3. CASE f # <<>> /\ ~IsBlank(f)
    <3>1. shown' = filterRows(all, f) /\ all' = all /\ all \in SetToSeqs(PickerRows)
      BY <1>1, <1>2, <2>3
    <3>2. /\ shown' \in Seq(PickerRows) /\ Len(shown') <= Len(all)
          /\ ToSet(shown') = DOMAIN Score[f]
          /\ \A i, j \in DOMAIN shown' : i < j => Score[f][shown'[i]] >= Score[f][shown'[j]]
      BY <2>3, <3>1, Filtered
    <3>3. DOMAIN Score[f] \subseteq PickerRows
      BY <2>3, PickerAssumption DEF IsBlank
    <3>4. ListIsInOrder'
      BY <1>1, <2>3, <3>2 DEF ListIsInOrder, IsBlank
    <3> QED BY <3>1, <3>2, <3>3, <3>4
  <2> QED BY <2>1, <2>2, <2>3
<1>4. 0 \in 0..Greater(Len(shown') - 1, 0)
  <2>1. Len(shown') \in Nat
    BY <1>3
  <2> QED BY <2>1 DEF Greater
<1>5. PickerTypeOK'
  BY <1>1, <1>2, <1>3, <1>4 DEF PickerInv, PickerTypeOK
<1> QED BY <1>1, <1>3, <1>5 DEF PickerInv

\* What a move makes of the view.
LEMMA MoveResult ==
  ASSUME PickerInv, NEW d \in Int, move(d), height' = height, state' = state
  PROVE  PickerInv' /\ InView' /\ sort' = sort
<1>1. /\ UNCHANGED <<all, shown, filter, sort>>
      /\ cursor' = Greater(Lesser(cursor + d, Len(shown) - 1), 0)
      /\ offset' = IF shown = <<>> THEN 0 ELSE scrollToCursor(cursor', Len(shown))
  BY DEF move, list
<1>2. /\ Len(shown) \in Nat /\ (shown = <<>> <=> Len(shown) = 0)
      /\ cursor \in Int /\ offset \in Int /\ height \in Int
  <2>1. Len(shown) \in Nat /\ (shown = <<>> <=> Len(shown) = 0)
    BY DEF PickerInv
  <2>2. cursor \in 0..Greater(Len(shown) - 1, 0) /\ offset \in 0..Greater(Len(shown) - 1, 0)
    BY DEF PickerInv, PickerTypeOK
  <2>3. height \in Int
    BY PickerAssumption DEF PickerInv, PickerTypeOK
  <2> QED BY <2>1, <2>2, <2>3 DEF Greater
<1>3. listRows \in Int /\ listRows >= 3 /\ listRows' = listRows
  BY <1>2 DEF listRows, reservedRows, minListRows
<1>4. /\ cursor' \in 0..Greater(Len(shown) - 1, 0) /\ offset' \in 0..Greater(Len(shown) - 1, 0)
      /\ offset' <= cursor' /\ cursor' < offset' + listRows
  <2>1. CASE shown = <<>>
    BY <1>1, <1>2, <1>3, <2>1 DEF Greater, Lesser
  <2>2. CASE shown # <<>>
    <3>1. cursor' \in 0..(Len(shown) - 1)
      BY <1>1, <1>2, <2>2 DEF Greater, Lesser
    <3>2. /\ offset' \in 0..(Len(shown) - 1)
          /\ offset' <= cursor' /\ cursor' < offset' + listRows
      BY <1>1, <1>2, <2>2, <3>1, Scrolled
    <3>3. Greater(Len(shown) - 1, 0) = Len(shown) - 1
      BY <1>2, <2>2 DEF Greater
    <3> QED BY <3>1, <3>2, <3>3
  <2> QED BY <2>1, <2>2
<1>5. PickerInv'
  BY <1>1, <1>4 DEF PickerInv, PickerTypeOK, ListIsInOrder, SortRows
<1> QED BY <1>1, <1>3, <1>4, <1>5 DEF InView

\* What a change of column makes of both.
LEMMA ColumnResult ==
  ASSUME PickerInv, NEW m \in SortModes, cycleSort(m), height' = height, state' = state
  PROVE  /\ PickerInv'
         /\ <<view, shown>>' # <<view, shown>> => InView'
         /\ shown # <<>> => shown'[cursor' + 1] = shown[cursor + 1]
<1>1. CASE filter # <<>> \/ shown = <<>>
  <2>1. UNCHANGED <<all, shown, cursor, offset, filter>> /\ sort' = m
    BY <1>1 DEF cycleSort, view
  <2>2. PickerTypeOK' /\ shown' \in Seq(PickerRows)
    BY <2>1 DEF PickerInv, PickerTypeOK
  <2>3. ListIsInOrder'
    <3>1. CASE filter # <<>>
      BY <2>1, <3>1 DEF PickerInv, ListIsInOrder, IsBlank
    <3>2. CASE filter = <<>> /\ shown = <<>>
      <4>1. all = <<>> /\ Len(<<>>) = 0
        BY <3>2 DEF PickerInv, ListIsInOrder
      <4>2. SortRows(m) \in SetToSeqs(PickerRows) /\ all \in SetToSeqs(PickerRows)
        BY SortedRows DEF PickerInv, PickerTypeOK
      <4>3. SortRows(m) \in Seq(PickerRows) /\ Len(SortRows(m)) = 0
        BY <4>1, <4>2, Arranged
      <4>4. SortRows(m) = <<>>
        BY <4>3
      <4> QED BY <2>1, <3>2, <4>1, <4>4 DEF ListIsInOrder, SortRows
    <3> QED BY <1>1, <3>1, <3>2
  <2> QED BY <2>1, <2>2, <2>3 DEF PickerInv, view
<1>2. CASE filter = <<>> /\ shown # <<>>
  <2>1. /\ all' = SortRows(m) /\ shown' = all' /\ sort' = m /\ filter' = filter
        /\ cursor' = PositionOf(shown[cursor + 1], shown') - 1
        /\ offset' = scrollToCursor(cursor', Len(shown'))
    BY <1>2 DEF cycleSort
  <2>2. Len(shown) \in Nat \ {0} /\ cursor \in 0..(Len(shown) - 1) /\ offset \in Int
    <3>1. Len(shown) \in Nat \ {0}
      BY <1>2 DEF PickerInv
    <3> QED BY <3>1 DEF PickerInv, PickerTypeOK, Greater
  <2>3. shown[cursor + 1] \in PickerRows
    BY <2>2 DEF PickerInv
  <2>4. all' \in SetToSeqs(PickerRows) /\ shown' \in SetToSeqs(PickerRows)
    BY <2>1, SortedRows
  <2>5. /\ shown' \in Seq(PickerRows) /\ ToSet(shown') = PickerRows /\ Len(shown') \in Nat
    BY <2>4, Arranged
  <2>6. /\ PositionOf(shown[cursor + 1], shown') \in 1..Len(shown')
        /\ shown'[PositionOf(shown[cursor + 1], shown')] = shown[cursor + 1]
    BY <2>3, <2>4, RowHasPosition
  <2>7. cursor' \in 0..(Len(shown') - 1) /\ shown'[cursor' + 1] = shown[cursor + 1]
    BY <2>1, <2>5, <2>6
  <2>8. height \in Int
    BY PickerAssumption DEF PickerInv, PickerTypeOK
  <2>9. /\ offset' \in 0..(Len(shown') - 1)
        /\ offset' <= cursor' /\ cursor' < offset' + listRows
    BY <2>1, <2>2, <2>5, <2>7, <2>8, Scrolled
  <2>10. Greater(Len(shown') - 1, 0) = Len(shown') - 1
    <3>1. Len(shown') \in Nat \ {0}
      BY <2>5, <2>7
    <3>2. ASSUME NEW n \in Nat \ {0} PROVE Greater(n - 1, 0) = n - 1
      BY DEF Greater
    <3> QED BY <3>1, <3>2
  <2>11. PickerTypeOK'
    BY <2>1, <2>4, <2>5, <2>7, <2>9, <2>10 DEF PickerInv, PickerTypeOK
  <2>12. ListIsInOrder'
    BY <1>2, <2>1 DEF ListIsInOrder, SortRows
  <2>13. InView'
    BY <2>9 DEF InView, listRows
  <2> QED BY <2>5, <2>7, <2>11, <2>12, <2>13 DEF PickerInv
<1> QED BY <1>1, <1>2

\* A step of the picker, as the invariant and the highlight see it.
LEMMA PickerStep ==
  ASSUME PickerInv, [PickerNext]_pickerVars
  PROVE  /\ PickerInv'
         /\ <<view, shown>>' # <<view, shown>> => InView'
         /\ sort' # sort /\ shown # <<>> => shown'[cursor' + 1] = shown[cursor + 1]
<1>1. CASE UNCHANGED <<list, view>> /\ height' \in WindowHeights
           /\ state' \in {"open", "quit", "chosen"}
  <2>1. UNCHANGED <<all, shown, filter, sort, cursor, offset>>
    BY <1>1 DEF list, view
  <2>2. PickerTypeOK'
    BY <1>1, <2>1 DEF PickerInv, PickerTypeOK
  <2>3. ListIsInOrder'
    BY <2>1 DEF PickerInv, ListIsInOrder, SortRows, IsBlank
  <2> QED BY <2>1, <2>2, <2>3 DEF PickerInv, view
<1>2. CASE UNCHANGED pickerVars
  BY <1>1, <1>2 DEF pickerVars, PickerInv, PickerTypeOK
<1>3. ASSUME NEW h \in WindowHeights, WindowResizes(h)
      PROVE  UNCHANGED <<list, view>> /\ height' \in WindowHeights
             /\ state' \in {"open", "quit", "chosen"}
  BY <1>3 DEF WindowResizes, PickerInv, PickerTypeOK
<1>4. CASE apply
  <2>1. height' = height /\ height \in WindowHeights /\ state = "open"
    BY <1>4 DEF apply, PickerInv, PickerTypeOK
  <2>2. ASSUME NEW s \in {"quit", "chosen"}, closes(s)
        PROVE  UNCHANGED <<list, view>> /\ state' \in {"open", "quit", "chosen"}
    BY <2>2 DEF closes
  <2>3. ASSUME NEW f \in BoundedSeq(Letters, MaxFilter), setFilter(f)
        PROVE  PickerInv' /\ InView' /\ sort' = sort
    <3>1. state' = state
      BY <2>3 DEF setFilter
    <3>2. PickerInv' /\ cursor' = 0 /\ offset' = 0 /\ sort' = sort
      BY <2>1, <2>3, <3>1, FilterResult
    <3>3. listRows \in Int /\ listRows >= 3 /\ listRows' = listRows
      <4>1. height \in Int
        BY <2>1, PickerAssumption
      <4> QED BY <2>1, <4>1 DEF listRows, reservedRows, minListRows
    <3>4. offset' <= cursor' /\ cursor' < offset' + listRows'
      BY <3>2, <3>3
    <3> QED BY <3>2, <3>4 DEF InView
  <2>4. filter \in Seq(Letters) /\ Len(filter) <= MaxFilter /\ MaxFilter \in Nat
    BY FilterIsText, PickerAssumption DEF PickerInv, PickerTypeOK
  <2>5. <<>> \in BoundedSeq(Letters, MaxFilter)
    BY NothingIsText
  <2>6. CASE Enter
    BY <1>1, <2>1, <2>2, <2>6 DEF Enter
  <2>7. CASE Esc
    BY <1>1, <2>1, <2>2, <2>3, <2>5, <2>7 DEF Esc
  <2>8. CASE Moves
    <3>1. listRows \in Int /\ Len(shown) \in Int
      <4>1. height \in Int
        BY <2>1, PickerAssumption
      <4> QED BY <4>1 DEF listRows, reservedRows, minListRows, PickerInv
    <3>2. PICK d \in Int : move(d)
      BY <2>8, <3>1 DEF Moves
    <3>3. state' = state
      BY <3>2 DEF move
    <3> QED BY <2>1, <3>2, <3>3, MoveResult
  <2>9. CASE Backspace
    <3>1. Front(filter) \in Seq(Letters) /\ Len(Front(filter)) <= MaxFilter
      <4>1. filter # <<>>
        BY <2>9 DEF Backspace
      <4> QED BY <2>4, <4>1 DEF Front
    <3>2. Front(filter) \in BoundedSeq(Letters, MaxFilter)
      BY <3>1, FilterIsText
    <3> QED BY <2>3, <2>9, <3>2 DEF Backspace
  <2>10. CASE CtrlU
    BY <2>3, <2>5, <2>10 DEF CtrlU
  <2>11. CASE Tab
    <3>1. PICK m \in SortModes : cycleSort(m)
      BY <2>11, ModesCycle DEF Tab, PickerInv, PickerTypeOK
    <3>2. state' = state
      BY <3>1 DEF cycleSort
    <3> QED BY <2>1, <3>1, <3>2, ColumnResult
  <2>12. CASE \E c \in Letters : Types(c)
    <3>1. PICK c \in Letters : Types(c)
      BY <2>12
    <3>2. CASE c = "q" /\ filter = <<>>
      BY <1>1, <2>1, <2>2, <3>1, <3>2 DEF Types
    <3>3. CASE ~(c = "q" /\ filter = <<>>)
      <4>1. Len(filter) < MaxFilter /\ setFilter(Append(filter, c))
        BY <3>1, <3>3 DEF Types
      <4>2. Append(filter, c) \in Seq(Letters) /\ Len(Append(filter, c)) <= MaxFilter
        BY <2>4, <4>1
      <4>3. Append(filter, c) \in BoundedSeq(Letters, MaxFilter)
        BY <4>2, FilterIsText
      <4> QED BY <2>3, <4>1, <4>3
    <3> QED BY <3>2, <3>3
  <2> QED BY <1>4, <2>6, <2>7, <2>8, <2>9, <2>10, <2>11, <2>12 DEF apply
<1> QED BY <1>1, <1>2, <1>3, <1>4 DEF PickerNext

LEMMA PickerInductive == PickerSpec => []PickerInv
<1>1. PickerInv /\ [PickerNext]_pickerVars => PickerInv'
  BY PickerStep
<1> QED BY <1>1, PickerInitHolds, PTL DEF PickerSpec

-----------------------------------------------------------------------------
\* Whatever is typed on a list of any length: the cursor stays on the list, and the
\* list within the rows.
THEOREM PickerTypeCorrect == PickerSpec => []PickerTypeOK
<1>1. PickerInv => PickerTypeOK
  BY DEF PickerInv
<1> QED BY <1>1, PickerInductive, PTL

\* The list is in the order of the column the header marks, or holds the rows the
\* filter scores with the best above (filterRows, sortRows), through any keys.
THEOREM ListStaysInOrder == PickerSpec => []ListIsInOrder
<1>1. PickerInv => ListIsInOrder
  BY DEF PickerInv
<1> QED BY <1>1, PickerInductive, PTL

\* For windows of any height: whatever moves leaves the highlighted row on the screen
\* (scrollToCursor), and a change of column leaves the highlight on its row.
THEOREM HighlightIsKept == PickerSpec => HighlightFollows
<1>1. PickerInv /\ [PickerNext]_pickerVars =>
        [/\ <<view, shown>>' # <<view, shown>> => InView'
         /\ sort' # sort /\ shown # <<>> => shown'[cursor' + 1] = shown[cursor + 1]]_pickerVars
  BY PickerStep
<1> QED BY <1>1, PickerInductive, PTL DEF PickerSpec, HighlightFollows

(***************************************************************************)
(* A console                                                               *)
(***************************************************************************)
Escaped(s) == \E i \in 1..(Len(s) - 1) : s[i] = "ctrlA" /\ s[i + 1] = "x"

EndsInCtrlA(s) == s # <<>> /\ s[Len(s)] = "ctrlA"

\* What the reader remembers is what it has seen, across reads. A transfer has none.
ReaderTracks ==
  /\ transport = "sftp" => ~reader.pending /\ ~reader.done
  /\ transport # "sftp" => (reader.done <=> Escaped(typed))
  /\ transport # "sftp" /\ ~reader.done => (reader.pending <=> EndsInCtrlA(typed))
  /\ reader.done => stdin = "ended"

\* Until the input ends every key is with the guest or on its way, in order.
KeysGoOn ==
  /\ stdin # "ended" => sent \o held = typed
  /\ stdin = "ended" => held = <<>> /\ IsPrefix(sent, typed)

\* Output ends, for ssh, at the end of what there was or for want of a terminal;
\* and by then nothing more comes.
OutputIsOver ==
  copier = "ended" /\ transport = "ssh" => gone \/ (link = "down" /\ displayed = produced)

\* Nobody returns before the joining is done.
ReturnsJoined == main = "returned" => Joined

ConsoleInv == ConsoleTypeOK /\ ReaderTracks /\ KeysGoOn /\ OutputIsOver /\ ReturnsJoined

-----------------------------------------------------------------------------
LEMMA OneMoreKey ==
  ASSUME NEW s \in Seq(Keys), NEW k \in Keys
  PROVE  /\ Append(s, k) \in Seq(Keys)
         /\ EndsInCtrlA(Append(s, k)) <=> k = "ctrlA"
         /\ Escaped(Append(s, k)) <=> Escaped(s) \/ (EndsInCtrlA(s) /\ k = "x")
<1> DEFINE t == Append(s, k)
<1>1. /\ t \in Seq(Keys) /\ Len(t) = Len(s) + 1 /\ Len(s) \in Nat
      /\ \A i \in 1..Len(s) : t[i] = s[i]
      /\ t[Len(s) + 1] = k
  OBVIOUS
<1>2. t # <<>> /\ (s # <<>> <=> Len(s) > 0)
  BY <1>1
<1> HIDE DEF t
<1>3. Escaped(t) => Escaped(s) \/ (EndsInCtrlA(s) /\ k = "x")
  <2> SUFFICES ASSUME NEW i \in 1..(Len(t) - 1), t[i] = "ctrlA", t[i + 1] = "x", ~Escaped(s)
               PROVE  EndsInCtrlA(s) /\ k = "x"
    BY DEF Escaped
  <2>1. i \in 1..Len(s)
    BY <1>1
  <2>2. i = Len(s)
    <3>1. CASE i < Len(s)
      BY <1>1, <2>1, <3>1 DEF Escaped
    <3> QED BY <1>1, <2>1, <3>1
  <2> QED BY <1>1, <1>2, <2>1, <2>2 DEF EndsInCtrlA
<1>4. Escaped(s) \/ (EndsInCtrlA(s) /\ k = "x") => Escaped(t)
  <2>1. CASE Escaped(s)
    <3>1. PICK i \in 1..(Len(s) - 1) : s[i] = "ctrlA" /\ s[i + 1] = "x"
      BY <2>1 DEF Escaped
    <3>2. i \in 1..(Len(t) - 1) /\ t[i] = "ctrlA" /\ t[i + 1] = "x"
      BY <1>1, <3>1
    <3> QED BY <3>2 DEF Escaped
  <2>2. CASE EndsInCtrlA(s) /\ k = "x"
    <3>1. Len(s) \in 1..(Len(t) - 1) /\ t[Len(s)] = "ctrlA" /\ t[Len(s) + 1] = "x"
      BY <1>1, <1>2, <2>2 DEF EndsInCtrlA
    <3> QED BY <3>1 DEF Escaped
  <2> QED BY <2>1, <2>2
<1>5. EndsInCtrlA(t) <=> k = "ctrlA"
  BY <1>1, <1>2 DEF EndsInCtrlA
<1> QED BY <1>1, <1>3, <1>4, <1>5 DEF t

\* What the first of two parts, or all but a last key, is of the whole.
LEMMA PartsArePrefixes ==
  ASSUME NEW s \in Seq(Keys), NEW h \in Seq(Keys), NEW k \in Keys
  PROVE  /\ IsPrefix(s, s) /\ IsPrefix(s, s \o h)
         /\ IsPrefix(s, Append(s \o h, k))
         /\ s \o <<>> = s
         /\ s \o Append(h, k) = Append(s \o h, k)
<1>1. /\ s \o h \in Seq(Keys) /\ Len(s \o h) = Len(s) + Len(h)
      /\ \A i \in 1..Len(s) : (s \o h)[i] = s[i]
      /\ Len(s) \in Nat /\ Len(h) \in Nat
  OBVIOUS
<1>2. ASSUME NEW t \in Seq(Keys), Len(s) <= Len(t), \A i \in 1..Len(s) : t[i] = s[i]
      PROVE  IsPrefix(s, t)
  <2>1. SubSeq(s, 1, Len(s)) = SubSeq(t, 1, Len(s))
    BY <1>1, <1>2
  <2> QED BY <1>2, <2>1 DEF IsPrefix
<1>3. IsPrefix(s, s) /\ IsPrefix(s, s \o h)
  <2>1. IsPrefix(s, s)
    BY <1>1, <1>2
  <2>2. Len(s) <= Len(s \o h)
    BY <1>1
  <2>3. IsPrefix(s, s \o h)
    BY <1>1, <1>2, <2>2
  <2> QED BY <2>1, <2>3
<1>4. IsPrefix(s, Append(s \o h, k))
  <2> DEFINE t == Append(s \o h, k)
  <2>1. t \in Seq(Keys) /\ Len(s) <= Len(t) /\ \A i \in 1..Len(s) : t[i] = s[i]
    BY <1>1
  <2> QED BY <2>1, <1>2
<1>5. s \o <<>> = s
  BY ConcatEmptySeq
<1>6. s \o Append(h, k) = Append(s \o h, k)
  BY <1>1
<1> QED BY <1>3, <1>4, <1>5, <1>6

-----------------------------------------------------------------------------
LEMMA ConsoleInitHolds == ConsoleInit => ConsoleInv
<1> SUFFICES ASSUME ConsoleInit PROVE ConsoleInv
  OBVIOUS
<1> USE ConsoleAssumption
<1>1. ConsoleTypeOK
  <2>1. /\ typed \in Seq(Keys) /\ held \in Seq(Keys) /\ sent \in Seq(Keys)
        /\ reader \in [pending : BOOLEAN, done : BOOLEAN]
    BY DEF ConsoleInit
  <2>2. backlog \in 0..Window /\ produced \in 0..MaxOutput /\ displayed \in 0..produced
    BY DEF ConsoleInit
  <2>3. sizer \in {"waiting", "ended"} /\ watcher \in {"waiting", "ended"}
    BY DEF ConsoleInit
  <2> QED BY <2>1, <2>2, <2>3 DEF ConsoleInit, ConsoleTypeOK
<1>2. ~Escaped(typed) /\ ~EndsInCtrlA(typed)
  BY DEF ConsoleInit, Escaped, EndsInCtrlA
<1>3. ReaderTracks
  BY <1>2 DEF ConsoleInit, ReaderTracks
<1>4. KeysGoOn /\ OutputIsOver /\ ReturnsJoined
  BY DEF ConsoleInit, KeysGoOn, OutputIsOver, ReturnsJoined
<1> QED BY <1>1, <1>3, <1>4 DEF ConsoleInv

LEMMA TypingKeeps ==
  ASSUME ConsoleInv, NEW k \in Keys, UserTypes(k)
  PROVE  ConsoleInv'
<1> USE ConsoleAssumption
<1>1. /\ stdin = "reading" /\ typed' = Append(typed, k)
      /\ typed \in Seq(Keys) /\ held \in Seq(Keys) /\ sent \in Seq(Keys)
      /\ sent \o held = typed
      /\ ~reader.done /\ reader \in [pending : BOOLEAN, done : BOOLEAN]
      /\ UNCHANGED <<transport, sent, backlog, outputVars, watcher, sizer, main>>
  BY DEF UserTypes, ConsoleInv, ConsoleTypeOK, ReaderTracks, KeysGoOn
<1>2. /\ typed' \in Seq(Keys)
      /\ EndsInCtrlA(typed') <=> k = "ctrlA"
      /\ Escaped(typed') <=> Escaped(typed) \/ (EndsInCtrlA(typed) /\ k = "x")
  BY <1>1, OneMoreKey
\* The reader is done with the key that completes an escape, and no other.
<1>3. /\ reader' \in [pending : BOOLEAN, done : BOOLEAN]
      /\ transport = "sftp" => reader' = reader
      /\ transport # "sftp" => /\ reader'.done <=> Escaped(typed')
                               /\ ~reader'.done => (reader'.pending <=> EndsInCtrlA(typed'))
  <2>1. CASE transport = "sftp"
    BY <1>1, <2>1 DEF UserTypes
  <2>2. CASE transport # "sftp"
    <3>1. reader' = IF reader.pending /\ k = "x" THEN [reader EXCEPT !.done = TRUE]
                    ELSE [reader EXCEPT !.pending = (k = "ctrlA")]
      BY <1>1, <2>2 DEF UserTypes, Key
    <3>2. ~Escaped(typed) /\ (reader.pending <=> EndsInCtrlA(typed))
      BY <1>1, <2>2 DEF ConsoleInv, ReaderTracks
    <3>3. CASE reader.pending /\ k = "x"
      BY <1>1, <1>2, <2>2, <3>1, <3>2, <3>3
    <3>4. CASE ~(reader.pending /\ k = "x")
      <4>1. reader'.done = reader.done /\ reader'.pending = (k = "ctrlA")
        BY <1>1, <3>1, <3>4
      <4>2. reader' \in [pending : BOOLEAN, done : BOOLEAN]
        BY <1>1, <3>1, <3>4
      <4> QED BY <1>1, <1>2, <2>2, <3>2, <3>4, <4>1, <4>2
    <3> QED BY <3>3, <3>4
  <2> QED BY <2>1, <2>2
<1>4. /\ link' \in {"open", "closing", "down"} /\ (link = "down" => link' = "down")
      /\ \/ reader'.done /\ stdin' = "ended" /\ held' = <<>>
         \/ ~reader'.done /\ stdin' \in {"reading", "writing"} /\ held' = Append(held, k)
  BY DEF UserTypes, Closing, ConsoleInv, ConsoleTypeOK
<1>5. ConsoleTypeOK'
  <2>1. held' \in Seq(Keys)
    <3>1. Append(held, k) \in Seq(Keys) /\ <<>> \in Seq(Keys)
      BY <1>1
    <3> QED BY <1>4, <3>1
  <2>2. stdin' \in {"reading", "writing", "ended"}
    BY <1>4
  <2> QED BY <1>1, <1>2, <1>3, <1>4, <2>1, <2>2 DEF ConsoleInv, ConsoleTypeOK, outputVars
<1>6. ReaderTracks'
  <2>1. transport' = transport
    BY <1>1
  <2>2. transport = "sftp" => ~reader'.pending /\ ~reader'.done
    BY <1>3 DEF ConsoleInv, ReaderTracks
  <2>3. reader'.done => stdin' = "ended"
    BY <1>4
  <2> QED BY <1>3, <2>1, <2>2, <2>3 DEF ReaderTracks
<1>7. KeysGoOn'
  <2>1. sent \o Append(held, k) = typed' /\ IsPrefix(sent, typed')
    BY <1>1, PartsArePrefixes
  <2> QED BY <1>1, <1>4, <2>1 DEF KeysGoOn
<1>8. OutputIsOver' /\ ReturnsJoined'
  BY <1>1, <1>4 DEF ConsoleInv, OutputIsOver, ReturnsJoined, Joined, outputVars
<1> QED BY <1>5, <1>6, <1>7, <1>8 DEF ConsoleInv

LEMMA HangingUpKeeps == ConsoleInv /\ UserHangsUp => ConsoleInv'
<1> SUFFICES ASSUME ConsoleInv, UserHangsUp PROVE ConsoleInv'
  OBVIOUS
<1>1. /\ stdin = "reading" /\ stdin' = "ended" /\ held = <<>>
      /\ link' \in {"open", "closing", "down"} /\ (link = "down" => link' = "down")
      /\ UNCHANGED <<transport, typed, reader, held, sent, backlog, outputVars,
                     watcher, sizer, main>>
  BY DEF UserHangsUp, Closing, ConsoleInv, ConsoleTypeOK
<1>2. ConsoleTypeOK'
  BY <1>1 DEF ConsoleInv, ConsoleTypeOK, outputVars
<1>3. ReaderTracks'
  BY <1>1 DEF ConsoleInv, ReaderTracks
<1>4. IsPrefix(sent, typed)
  <2>1. sent \in Seq(Keys) /\ sent \o <<>> = typed
    BY <1>1 DEF ConsoleInv, KeysGoOn, ConsoleTypeOK
  <2>2. sent = typed
    BY <2>1, ConcatEmptySeq
  <2> QED BY <2>1, <2>2, PartsArePrefixes DEF Keys
<1>5. KeysGoOn'
  BY <1>1, <1>4 DEF KeysGoOn
<1>6. OutputIsOver' /\ ReturnsJoined'
  BY <1>1 DEF ConsoleInv, OutputIsOver, ReturnsJoined, Joined, outputVars
<1> QED BY <1>2, <1>3, <1>5, <1>6 DEF ConsoleInv

LEMMA WritingKeeps == ConsoleInv /\ StdinWrites => ConsoleInv'
<1> SUFFICES ASSUME ConsoleInv, StdinWrites PROVE ConsoleInv'
  OBVIOUS
<1> USE ConsoleAssumption
<1>1. /\ stdin = "writing" /\ held' = <<>> /\ sent \o held = typed
      /\ typed \in Seq(Keys) /\ held \in Seq(Keys) /\ sent \in Seq(Keys)
      /\ \/ stdin' = "ended" /\ UNCHANGED <<sent, backlog>>
         \/ stdin' = "reading" /\ sent' = typed /\ backlog < Window /\ backlog' = backlog + 1
      /\ UNCHANGED <<transport, typed, reader, outputVars, watcher, sizer, link, main>>
  BY DEF StdinWrites, ConsoleInv, ConsoleTypeOK, KeysGoOn
<1>2. ConsoleTypeOK'
  <2>1. backlog' \in 0..Window
    BY <1>1 DEF ConsoleInv, ConsoleTypeOK
  <2>2. sent' \in Seq(Keys) /\ held' \in Seq(Keys)
    BY <1>1
  <2> QED BY <1>1, <2>1, <2>2 DEF ConsoleInv, ConsoleTypeOK, outputVars
<1>3. ReaderTracks'
  BY <1>1 DEF ConsoleInv, ReaderTracks
<1>4. KeysGoOn'
  <2>1. IsPrefix(sent, typed)
    BY <1>1, PartsArePrefixes DEF Keys
  <2>2. typed \o <<>> = typed
    BY <1>1, ConcatEmptySeq
  <2> QED BY <1>1, <2>1, <2>2 DEF KeysGoOn
<1>5. OutputIsOver' /\ ReturnsJoined'
  BY <1>1 DEF ConsoleInv, OutputIsOver, ReturnsJoined, Joined, outputVars
<1> QED BY <1>2, <1>3, <1>4, <1>5 DEF ConsoleInv

\* Whatever leaves the input alone, and neither brings the link up again nor
\* takes output back.
LEMMA RemoteKeeps == ConsoleInv /\ (GuestReads \/ RemoteSends \/ RemoteExits \/ RemoteAnswersClose)
                       => ConsoleInv'
<1> SUFFICES ASSUME ConsoleInv, GuestReads \/ RemoteSends \/ RemoteExits \/ RemoteAnswersClose
             PROVE  ConsoleInv'
  OBVIOUS
<1> USE ConsoleAssumption
<1>1. /\ UNCHANGED <<transport, typed, reader, held, sent, stdin, copier, displayed, gone,
                     watcher, sizer, main>>
      /\ backlog' \in 0..Window
      /\ link' \in {"open", "closing", "down"} /\ (link = "down" => link' = "down")
      /\ produced' \in 0..MaxOutput /\ displayed \in 0..produced'
      /\ link = "down" => produced' = produced
  <2>1. CASE GuestReads
    BY <2>1 DEF GuestReads, outputVars, ConsoleInv, ConsoleTypeOK
  <2>2. CASE RemoteSends
    BY <2>2 DEF RemoteSends, inputVars, ConsoleInv, ConsoleTypeOK
  <2>3. CASE RemoteExits \/ RemoteAnswersClose
    BY <2>3 DEF RemoteExits, RemoteAnswersClose, inputVars, outputVars, ConsoleInv, ConsoleTypeOK
  <2> QED BY <2>1, <2>2, <2>3
<1>2. ConsoleTypeOK'
  BY <1>1 DEF ConsoleInv, ConsoleTypeOK
<1>3. ReaderTracks' /\ KeysGoOn'
  BY <1>1 DEF ConsoleInv, ReaderTracks, KeysGoOn
<1>4. OutputIsOver' /\ ReturnsJoined'
  BY <1>1 DEF ConsoleInv, OutputIsOver, ReturnsJoined, Joined
<1> QED BY <1>2, <1>3, <1>4 DEF ConsoleInv

LEMMA OutputKeeps == ConsoleInv /\ (CopierShows \/ CopierEnds \/ TerminalFails \/ SizerEnds)
                       => ConsoleInv'
<1> SUFFICES ASSUME ConsoleInv, CopierShows \/ CopierEnds \/ TerminalFails \/ SizerEnds
             PROVE  ConsoleInv'
  OBVIOUS
<1>1. /\ UNCHANGED <<transport, inputVars, produced, watcher, link, main>>
      /\ copier' \in {"copying", "ended"} /\ (copier = "ended" => copier' = "ended")
      /\ sizer' \in {"waiting", "ended"} /\ (sizer = "ended" => sizer' = "ended")
      /\ displayed' \in 0..produced /\ (copier = "ended" => displayed' = displayed)
      /\ gone' \in BOOLEAN /\ (gone => gone')
      /\ copier # copier' /\ transport = "ssh" => gone' \/ (link = "down" /\ displayed' = produced)
  <2> USE DEF inputVars, ConsoleInv, ConsoleTypeOK
  <2>1. CASE CopierShows
    BY <2>1 DEF CopierShows
  <2>2. CASE CopierEnds
    BY <2>2 DEF CopierEnds
  <2>3. CASE TerminalFails
    BY <2>3 DEF TerminalFails
  <2>4. CASE SizerEnds
    BY <2>4 DEF SizerEnds, outputVars
  <2> QED BY <2>1, <2>2, <2>3, <2>4
<1>2. ConsoleTypeOK'
  BY <1>1 DEF ConsoleInv, ConsoleTypeOK, inputVars
<1>3. ReaderTracks' /\ KeysGoOn'
  BY <1>1 DEF ConsoleInv, ReaderTracks, KeysGoOn, inputVars
<1>4. OutputIsOver' /\ ReturnsJoined'
  BY <1>1 DEF ConsoleInv, OutputIsOver, ReturnsJoined, Joined
<1> QED BY <1>2, <1>3, <1>4 DEF ConsoleInv

LEMMA TearDownKeeps == ConsoleInv /\ (WatcherCloses \/ WatcherEnds \/ MainWakes \/ MainReturns)
                         => ConsoleInv'
<1> SUFFICES ASSUME ConsoleInv, WatcherCloses \/ WatcherEnds \/ MainWakes \/ MainReturns
             PROVE  ConsoleInv'
  OBVIOUS
<1>1. /\ UNCHANGED <<transport, inputVars, outputVars, sizer>>
      /\ link' \in {"open", "closing", "down"} /\ (link = "down" => link' = "down")
      /\ watcher' \in {"waiting", "ended"}
      /\ main' \in {"waiting", "joining", "returned"}
      /\ main' = "returned" => main = "returned" \/ Joined
  BY DEF WatcherCloses, WatcherEnds, MainWakes, MainReturns, ConsoleInv, ConsoleTypeOK
<1>2. ConsoleTypeOK'
  BY <1>1 DEF ConsoleInv, ConsoleTypeOK, inputVars, outputVars
<1>3. ReaderTracks' /\ KeysGoOn'
  BY <1>1 DEF ConsoleInv, ReaderTracks, KeysGoOn, inputVars
<1>4. OutputIsOver' /\ ReturnsJoined'
  BY <1>1 DEF ConsoleInv, OutputIsOver, ReturnsJoined, Joined, outputVars
<1> QED BY <1>2, <1>3, <1>4 DEF ConsoleInv

LEMMA ConsoleStepHolds == ConsoleInv /\ [ConsoleNext]_consoleVars => ConsoleInv'
<1> SUFFICES ASSUME ConsoleInv, [ConsoleNext]_consoleVars PROVE ConsoleInv'
  OBVIOUS
<1>1. CASE UNCHANGED consoleVars
  BY <1>1 DEF consoleVars, inputVars, outputVars, ConsoleInv, ConsoleTypeOK, ReaderTracks,
              KeysGoOn, OutputIsOver, ReturnsJoined, Joined
<1>2. CASE ConsoleNext
  BY <1>2, TypingKeeps, HangingUpKeeps, WritingKeeps, RemoteKeeps, OutputKeeps, TearDownKeeps
  DEF ConsoleNext
<1> QED BY <1>1, <1>2

LEMMA ConsoleInductive == ConsoleSpec => []ConsoleInv
BY ConsoleInitHolds, ConsoleStepHolds, PTL DEF ConsoleSpec

-----------------------------------------------------------------------------
\* However much is typed and printed, every goroutine of a bridge is in one of its
\* states, and no more is under way to the guest than the link holds.
THEOREM ConsoleTypeCorrect == ConsoleSpec => []ConsoleTypeOK
<1>1. ConsoleInv => ConsoleTypeOK
  BY DEF ConsoleInv
<1> QED BY <1>1, ConsoleInductive, PTL

\* For input of any length: the hatch opens on Ctrl+A and X and on nothing else,
\* however the keys fall into the reads of escapeReader.Read, and until then the
\* guest gets every key, once and in order.
THEOREM HatchIsExact == ConsoleSpec => []EscapeIsExact
<1>1. ConsoleInv => EscapeIsExact
  <2> SUFFICES ASSUME ConsoleInv PROVE EscapeIsExact
    OBVIOUS
  <2>1. reader.done <=> transport # "sftp" /\ Escaped(typed)
    BY DEF ConsoleInv, ReaderTracks
  <2>2. IsPrefix(sent \o held, typed)
    <3>1. sent \in Seq(Keys) /\ held \in Seq(Keys) /\ typed \in Seq(Keys)
      BY DEF ConsoleInv, ConsoleTypeOK
    <3>2. CASE stdin = "ended"
      <4>1. sent \o held = sent
        BY <3>1, <3>2, ConcatEmptySeq DEF ConsoleInv, KeysGoOn
      <4> QED BY <3>2, <4>1 DEF ConsoleInv, KeysGoOn
    <3>3. CASE stdin # "ended"
      BY <3>1, <3>3, PartsArePrefixes DEF ConsoleInv, KeysGoOn, Keys
    <3> QED BY <3>2, <3>3
  <2> QED BY <2>1, <2>2 DEF EscapeIsExact, Escaped, ConsoleInv, KeysGoOn
<1> QED BY <1>1, ConsoleInductive, PTL

\* When runSSHConsole returns, the goroutines it waits for have ended, and all the
\* guest said has been shown unless the terminal took no more.
THEOREM NobodyTrails == ConsoleSpec => []NothingTrails
<1>1. ConsoleInv => NothingTrails
  BY DEF ConsoleInv, OutputIsOver, ReturnsJoined, Joined, NothingTrails
<1> QED BY <1>1, ConsoleInductive, PTL

(***************************************************************************)
(* A file transfer                                                         *)
(*                                                                         *)
(* Pieces are written in any order and one does not undo another, as the   *)
(* file is only truncated before the first and cut to its full length      *)
(* after the last; attributes are set one after the other, the times last, *)
(* when nothing is written any more.                                       *)
(***************************************************************************)
TransferParameters == Pieces \in Nat \ {0} /\ Attributes \subseteq SUBSET Names

SoFar(n) == {AttributeOrder[i] : i \in 1..(n - 1)} \intersect sends

\* Nothing lies beyond the end of a file.
WithinItsEnd(f) == \A p \in f.has : p <= f.upTo

\* Writes are under way only while the file is open.
NoneOut == handle # "open" => \A p \in All : piece[p] # "sent"

\* A file is opened before its pieces are answered; its attributes are set after.
InOrder ==
  /\ handle = "new" => \A p \in All : piece[p] = "unsent"
  /\ handle \in {"new", "open"} => next = 1
  /\ handle = "setting" => AllAcked

Answered == ~meddled => \A p \in All : piece[p] = "acked" => p \in file.has

SetInOrder == ~meddled /\ helper => file.set = SoFar(next)

TransferInv == TypeOK /\ WithinItsEnd(file) /\ NoneOut /\ InOrder /\ Answered /\ SetInOrder

LEMMA Orders ==
  /\ Len(AttributeOrder) = 4 /\ DOMAIN AttributeOrder = 1..4
  /\ AttributeOrder[1] = "size" /\ AttributeOrder[2] = "mode"
  /\ AttributeOrder[3] = "owner" /\ AttributeOrder[4] = "times"
  /\ Names = {"size", "mode", "owner", "times"}
<1>1. /\ Len(AttributeOrder) = 4
      /\ AttributeOrder[1] = "size" /\ AttributeOrder[2] = "mode"
      /\ AttributeOrder[3] = "owner" /\ AttributeOrder[4] = "times"
  BY DEF AttributeOrder
<1>2. DOMAIN AttributeOrder = 1..4
  BY DEF AttributeOrder
<1> QED BY <1>1, <1>2 DEF Names

-----------------------------------------------------------------------------
\* What the calls make of a file.

LEMMA TruncatedResult ==
  ASSUME TransferParameters, NEW f \in Files, WithinItsEnd(f), NEW n \in 0..Pieces
  PROVE  /\ Truncated(f, n) \in Files
         /\ WithinItsEnd(Truncated(f, n))
         /\ Truncated(f, n).has = {p \in f.has : p <= n}
         /\ Truncated(f, n).set = f.set \ {"times", "size"}
<1> DEFINE kept == {p \in f.has : p <= n}
           left == f.set \ {"times", "size"}
           g == [f EXCEPT !.has = kept, !.upTo = n, !.set = left]
<1>1. Truncated(f, n) = g
  BY DEF Truncated
<1>2. kept \in SUBSET All /\ left \in SUBSET Names /\ \A p \in kept : p <= n
  BY DEF Files
<1> HIDE DEF kept, left
<1>3. g \in Files /\ g.has = kept /\ g.set = left /\ g.upTo = n
  BY <1>2 DEF Files
<1> QED BY <1>1, <1>2, <1>3 DEF WithinItsEnd, kept, left

\* A write leaves what the file has, unless it truncates, and adds its piece.
LEMMA WriteResult ==
  ASSUME TransferParameters, NEW f \in Files, WithinItsEnd(f), NEW p \in 0..Pieces, NEW trunc \in BOOLEAN
  PROVE  /\ write(f, p, trunc) \in Files
         /\ WithinItsEnd(write(f, p, trunc))
         /\ write(f, p, trunc).has = (IF trunc THEN {} ELSE f.has) \union ({p} \intersect All)
         /\ write(f, p, trunc).set \subseteq f.set
         /\ "times" \notin f.set /\ ~trunc => write(f, p, trunc).set = f.set
<1> DEFINE g == IF trunc THEN Truncated(f, 0) ELSE f
<1>1. /\ g \in Files /\ WithinItsEnd(g) /\ g.set \subseteq f.set /\ (~trunc => g = f)
      /\ g.has = IF trunc THEN {} ELSE f.has
  <2>1. 0 \in 0..Pieces /\ {q \in f.has : q <= 0} = {}
    BY DEF TransferParameters, Files, All
  <2> QED BY <2>1, TruncatedResult
<1> DEFINE h == [g EXCEPT !.exists = TRUE, !.has = @ \union ({p} \intersect All),
                          !.upTo = Top(@, p), !.set = @ \ {"times"}]
<1>2. write(f, p, trunc) = h
  BY DEF write
<1> HIDE DEF g
<1>3. /\ h.exists = TRUE /\ h.has = g.has \union ({p} \intersect All)
      /\ h.upTo = Top(g.upTo, p) /\ h.set = g.set \ {"times"}
  BY <1>1 DEF Files
<1>4. Top(g.upTo, p) \in 0..Pieces /\ Top(g.upTo, p) >= g.upTo /\ Top(g.upTo, p) >= p
  BY <1>1 DEF Files, Top, TransferParameters
<1>5. h \in Files
  BY <1>1, <1>3, <1>4 DEF Files
<1>6. WithinItsEnd(h)
  BY <1>1, <1>3, <1>4 DEF WithinItsEnd, Files, All, TransferParameters
<1> HIDE DEF h
<1> QED BY <1>1, <1>2, <1>3, <1>5, <1>6

\* Setting an attribute leaves the pieces alone and adds it to those set, and only
\* the size takes others away.
LEMMA AttributeResult ==
  ASSUME TransferParameters, NEW f \in Files, WithinItsEnd(f), NEW a \in Names
  PROVE  /\ Applied(f, a) \in Files
         /\ WithinItsEnd(Applied(f, a))
         /\ Applied(f, a).has = f.has
         /\ a # "size" \/ f.set = {} => Applied(f, a).set = f.set \union {a}
<1> DEFINE g == IF a = "size" THEN Truncated(f, Pieces) ELSE f
<1>1. /\ g \in Files /\ WithinItsEnd(g) /\ g.has = f.has
      /\ a # "size" \/ f.set = {} => g.set = f.set
  <2>1. Pieces \in 0..Pieces /\ {q \in f.has : q <= Pieces} = f.has
    BY DEF TransferParameters, Files, All
  <2> QED BY <2>1, TruncatedResult
<1>2. Applied(f, a) = [g EXCEPT !.set = @ \union {a}]
  BY DEF Applied
<1> HIDE DEF g
<1> QED BY <1>1, <1>2 DEF Files, WithinItsEnd

-----------------------------------------------------------------------------
\* One lemma for each handler.

LEMMA TransferInitHolds == TransferParameters /\ Init => TransferInv
<1> SUFFICES ASSUME TransferParameters, Init PROVE TransferInv
  OBVIOUS
<1>1. file \in Files /\ file.has = {} /\ file.set = {}
  <2>1. CASE file = NoFile
    BY <2>1 DEF NoFile, Files, TransferParameters
  <2>2. CASE file = [exists |-> TRUE, has |-> {}, upTo |-> Pieces, set |-> {}]
    BY <2>2 DEF Files, TransferParameters
  <2> QED BY <2>1, <2>2 DEF Init
<1>2. TypeOK
  <2>1. 1 \in 1..(Len(AttributeOrder) + 1) /\ sends \in SUBSET Names
    BY Orders DEF Init, TransferParameters
  <2> QED BY <1>1, <2>1 DEF Init, TypeOK
<1>3. SoFar(next) = {}
  BY DEF Init, SoFar
<1> QED BY <1>1, <1>2, <1>3 DEF Init, TransferInv, WithinItsEnd, NoneOut, InOrder, Answered, SetInOrder

LEMMA OpenKeeps == TransferParameters /\ TransferInv /\ Filewrite => TransferInv'
<1> SUFFICES ASSUME TransferParameters, TransferInv, Filewrite PROVE TransferInv'
  OBVIOUS
<1> DEFINE g == write(file, 0, TRUE)
<1>1. /\ g \in Files /\ WithinItsEnd(g) /\ g.set \subseteq file.set
  <2>1. file \in Files /\ WithinItsEnd(file) /\ 0 \in 0..Pieces
    BY DEF TransferInv, TypeOK, TransferParameters
  <2> QED BY <2>1, WriteResult
<1> HIDE DEF g
<1>2. /\ file' \in {file, g} /\ helper' \in BOOLEAN /\ (helper' => helper)
      /\ handle = "new" /\ handle' \in {"open", "failed"}
      /\ UNCHANGED <<piece, sends, next, meddled>>
  BY DEF Filewrite, Answers, Refuses, Breaks, g, TransferInv, TypeOK
<1>3. \A p \in All : piece[p] = "unsent"
  BY <1>2 DEF TransferInv, InOrder
<1>4. TypeOK' /\ WithinItsEnd(file)'
  BY <1>1, <1>2 DEF TransferInv, TypeOK, WithinItsEnd
<1>5. NoneOut' /\ InOrder' /\ Answered'
  BY <1>2, <1>3 DEF TransferInv, NoneOut, InOrder, Answered
<1>6. SetInOrder'
  <2>1. SoFar(next) = {} /\ SoFar(next)' = SoFar(next)
    BY <1>2 DEF TransferInv, InOrder, SoFar
  <2> QED BY <1>1, <1>2, <2>1 DEF TransferInv, SetInOrder
<1> QED BY <1>4, <1>5, <1>6 DEF TransferInv

LEMMA SendKeeps == ASSUME TransferParameters, TransferInv, NEW p \in All, ClientSends(p) PROVE TransferInv'
<1>1. TypeOK' /\ WithinItsEnd(file)'
  BY DEF TransferInv, TypeOK, WithinItsEnd, ClientSends
<1>2. NoneOut' /\ InOrder' /\ Answered'
  BY DEF TransferInv, TypeOK, NoneOut, InOrder, Answered, AllAcked, ClientSends
<1>3. SetInOrder'
  BY DEF TransferInv, SetInOrder, SoFar, ClientSends
<1> QED BY <1>1, <1>2, <1>3 DEF TransferInv

LEMMA WriteKeeps == ASSUME TransferParameters, TransferInv, NEW p \in All, WriteAt(p) PROVE TransferInv'
<1> DEFINE g == write(file, p, FALSE)
<1>0. p \in 0..Pieces
  BY DEF All, TransferParameters
<1>1. /\ g \in Files /\ WithinItsEnd(g) /\ g.has = file.has \union {p}
      /\ "times" \notin file.set => g.set = file.set
  <2>1. file \in Files /\ WithinItsEnd(file) /\ {p} \intersect All = {p}
    BY DEF TransferInv, TypeOK
  <2>2. g.has = file.has \union ({p} \intersect All)
    BY <1>0, <2>1, WriteResult, Zenon
  <2> QED BY <1>0, <2>1, <2>2, WriteResult
<1> HIDE DEF g
<1>2. /\ file' \in {file, g} /\ helper' \in BOOLEAN /\ (helper' => helper)
      /\ piece[p] = "sent" /\ piece' = [piece EXCEPT ![p] = piece'[p]]
      /\ piece'[p] \in {"acked", "failed"}
      /\ piece'[p] = "acked" => file' = g
      /\ UNCHANGED <<handle, sends, next, meddled>>
  <2>1. /\ file' \in {file, g} /\ helper' \in BOOLEAN /\ (helper' => helper)
        /\ piece[p] = "sent" /\ UNCHANGED <<handle, sends, next, meddled>>
    <3>1. \/ Answers(g) \/ Refuses \/ Breaks(g)
          \/ ~helper /\ UNCHANGED <<file, helper>>
      BY DEF WriteAt, g
    <3>2. file' \in {file, g}
      BY <3>1 DEF Answers, Refuses, Breaks
    <3>3. helper' = helper \/ helper' = FALSE
      BY <3>1 DEF Answers, Refuses, Breaks
    <3>4. helper' \in BOOLEAN /\ (helper' => helper)
      <4>1. helper \in BOOLEAN
        BY DEF TransferInv, TypeOK
      <4>2. CASE helper' = helper
        BY <4>1, <4>2
      <4>3. CASE helper' = FALSE
        BY <4>3
      <4> QED BY <3>3, <4>2, <4>3
    <3> QED BY <3>2, <3>4 DEF WriteAt
  <2>2. \/ piece' = [piece EXCEPT ![p] = "acked"] /\ file' = g
        \/ piece' = [piece EXCEPT ![p] = "failed"]
    BY DEF WriteAt, Answers, g
  <2> QED BY <2>1, <2>2 DEF TransferInv, TypeOK
<1>3. handle = "open" /\ next = 1
  BY <1>2 DEF TransferInv, NoneOut, InOrder
<1>4. TypeOK' /\ WithinItsEnd(file)'
  BY <1>1, <1>2 DEF TransferInv, TypeOK, WithinItsEnd
<1>5. NoneOut' /\ InOrder'
  BY <1>2, <1>3 DEF TransferInv, NoneOut, InOrder
<1>6. Answered'
  BY <1>1, <1>2 DEF TransferInv, TypeOK, Answered
<1>7. SetInOrder'
  <2>1. SoFar(next) = {} /\ SoFar(next)' = SoFar(next)
    BY <1>2, <1>3 DEF SoFar
  <2> QED BY <1>1, <1>2, <2>1 DEF TransferInv, SetInOrder
<1> QED BY <1>4, <1>5, <1>6, <1>7 DEF TransferInv

LEMMA SetKeeps == TransferParameters /\ TransferInv /\ setstat => TransferInv'
<1> SUFFICES ASSUME TransferParameters, TransferInv, setstat PROVE TransferInv'
  OBVIOUS
<1> DEFINE a == Attribute
           g == Applied(file, a)
<1>1. handle = "setting" /\ next \in 1..4 /\ UNCHANGED <<piece, sends, meddled>>
  BY Orders DEF setstat
<1>2. a \in Names /\ (a = "size" => next = 1)
  BY <1>1, Orders DEF Attribute, Names
<1>3. /\ g \in Files /\ WithinItsEnd(g) /\ g.has = file.has
      /\ a # "size" \/ file.set = {} => g.set = file.set \union {a}
  BY <1>2, AttributeResult DEF TransferInv, TypeOK
<1>4. \/ /\ handle' = "setting" /\ next' = next + 1 /\ helper' = helper
         /\ \/ a \in sends /\ helper /\ file' = g
            \/ a \notin sends /\ file' = file
      \/ /\ handle' = "failed" /\ next' = next
         /\ \/ file' = file /\ helper' = helper
            \/ file' \in {file, g} /\ helper' = FALSE
  BY <1>1 DEF setstat, Answers, Refuses, Breaks
<1> HIDE DEF a, g
<1>5. TypeOK' /\ WithinItsEnd(file)'
  <2>1. file' \in Files /\ WithinItsEnd(file')
    BY <1>3, <1>4 DEF TransferInv, TypeOK
  <2>2. next' \in 1..5 /\ helper' \in BOOLEAN
    <3>1. next' \in 1..5
      BY <1>1, <1>4
    <3>2. helper' = helper \/ helper' = FALSE
      BY <1>4
    <3> QED BY <3>1, <3>2 DEF TransferInv, TypeOK
  <2>3. Len(AttributeOrder) + 1 = 5
    BY Orders
  <2> QED BY <1>1, <1>4, <2>1, <2>2, <2>3 DEF TransferInv, TypeOK, WithinItsEnd
<1>6. NoneOut' /\ InOrder' /\ Answered'
  BY <1>1, <1>3, <1>4 DEF TransferInv, NoneOut, InOrder, Answered, AllAcked
<1>7. SetInOrder'
  <2> SUFFICES ASSUME ~meddled, helper' PROVE file'.set = SoFar(next)'
    BY <1>1 DEF SetInOrder
  <2>1. helper /\ file.set = SoFar(next)
    BY <1>4 DEF TransferInv, TypeOK, SetInOrder
  <2>2. a = "size" => file.set = {}
    BY <1>2, <2>1 DEF SoFar
  <2>3. CASE next' = next /\ file' = file
    BY <1>1, <2>1, <2>3 DEF SoFar
  <2>4. CASE next' = next + 1
    <3>1. SoFar(next)' = SoFar(next) \union ({a} \intersect sends)
      <4>1. 1..(next' - 1) = 1..(next - 1) \union {next}
        BY <1>1, <2>4
      <4> QED BY <1>1, <4>1 DEF SoFar, a, Attribute
    <3> QED BY <1>3, <1>4, <2>1, <2>2, <2>4, <3>1
  <2> QED BY <1>1, <1>4, <2>3, <2>4
<1> QED BY <1>5, <1>6, <1>7 DEF TransferInv

LEMMA ClientKeeps == TransferParameters /\ TransferInv /\ (ClientSetsAttributes \/ ClientCloses) => TransferInv'
<1> SUFFICES ASSUME TransferParameters, TransferInv, ClientSetsAttributes \/ ClientCloses PROVE TransferInv'
  OBVIOUS
<1>1. /\ UNCHANGED <<file, piece, sends, next, helper, meddled>>
      /\ \/ handle' = "setting" /\ AllAcked
         \/ handle' = "closed" /\ \A p \in All : piece[p] # "sent"
  BY DEF ClientSetsAttributes, ClientCloses, TransferInv, NoneOut
<1>2. TypeOK' /\ WithinItsEnd(file)'
  BY <1>1 DEF TransferInv, TypeOK, WithinItsEnd
<1>3. NoneOut' /\ InOrder' /\ Answered' /\ SetInOrder'
  BY <1>1 DEF TransferInv, NoneOut, InOrder, Answered, SetInOrder, SoFar, AllAcked
<1> QED BY <1>2, <1>3 DEF TransferInv

LEMMA MeddlingKeeps == TransferParameters /\ TransferInv /\ SomeoneMeddles => TransferInv'
<1> SUFFICES ASSUME TransferParameters, TransferInv, SomeoneMeddles PROVE TransferInv'
  OBVIOUS
<1>1. NoFile \in Files /\ WithinItsEnd(NoFile)
  BY DEF NoFile, Files, WithinItsEnd, TransferParameters
<1>2. Truncated(file, 0) \in Files /\ WithinItsEnd(Truncated(file, 0))
  <2>1. 0 \in 0..Pieces
    BY DEF TransferParameters
  <2> QED BY <2>1, TruncatedResult DEF TransferInv, TypeOK
<1>3. write(file, 1, TRUE) \in Files /\ WithinItsEnd(write(file, 1, TRUE))
  <2>1. 1 \in 0..Pieces
    BY DEF TransferParameters
  <2> QED BY <2>1, WriteResult DEF TransferInv, TypeOK
<1>4. file' \in Files /\ WithinItsEnd(file')
  BY <1>1, <1>2, <1>3 DEF SomeoneMeddles
<1>5. TypeOK' /\ WithinItsEnd(file)'
  BY <1>4 DEF SomeoneMeddles, TransferInv, TypeOK, WithinItsEnd
<1>6. NoneOut' /\ InOrder' /\ Answered' /\ SetInOrder'
  BY DEF SomeoneMeddles, TransferInv, NoneOut, InOrder, Answered, SetInOrder, AllAcked
<1> QED BY <1>5, <1>6 DEF TransferInv

LEMMA TransferStepHolds == TransferParameters /\ TransferInv /\ [Next]_uploadVars => TransferInv'
<1> SUFFICES ASSUME TransferParameters, TransferInv, [Next]_uploadVars PROVE TransferInv'
  OBVIOUS
<1>1. CASE UNCHANGED uploadVars
  BY <1>1 DEF uploadVars, TransferInv, TypeOK, WithinItsEnd, NoneOut, InOrder, Answered, SetInOrder, SoFar, AllAcked
<1>2. CASE Next
  BY <1>2, OpenKeeps, SendKeeps, WriteKeeps, SetKeeps, ClientKeeps, MeddlingKeeps DEF Next
<1> QED BY <1>1, <1>2

LEMMA TransferInductive == ASSUME TransferParameters PROVE Spec => []TransferInv
<1>1. Init => TransferInv
  BY TransferInitHolds
<1>2. TransferInv /\ [Next]_uploadVars => TransferInv'
  BY TransferStepHolds
<1> QED BY <1>1, <1>2, PTL DEF Spec

-----------------------------------------------------------------------------
\* The file is a file of at most Pieces pieces whatever happens to it.
THEOREM TransferTypeCorrect == ASSUME TransferParameters PROVE Spec => []TypeOK
<1>1. TransferInv => TypeOK
  BY DEF TransferInv
<1>2. Spec => []TransferInv
  BY TransferInductive
<1> QED BY <1>1, <1>2, PTL

\* However many pieces are on their way at once and in whatever order the workers
\* take them: what was answered is in the file, and when all was answered the
\* file is whole and of the right length.
THEOREM AnswersAreKept == ASSUME TransferParameters PROVE Spec => []AnsweredPiecesStay
<1>1. ASSUME TransferInv PROVE AnsweredPiecesStay
  <2> SUFFICES ASSUME ~meddled PROVE
          /\ \A p \in All : piece[p] = "acked" => p \in file.has
          /\ AllAcked => file.has = All /\ file.upTo = Pieces
    BY DEF AnsweredPiecesStay
  <2>1. \A p \in All : piece[p] = "acked" => p \in file.has
    BY <1>1 DEF TransferInv, Answered
  <2>2. ASSUME AllAcked PROVE file.has = All /\ file.upTo = Pieces
    <3>1. file.has = All
      BY <1>1, <2>1, <2>2 DEF AllAcked, TransferInv, TypeOK, Files
    <3>2. Pieces \in file.has /\ file.upTo \in 0..Pieces
      BY <1>1, <3>1 DEF All, TransferParameters, TransferInv, TypeOK, Files
    <3> QED BY <1>1, <3>1, <3>2 DEF TransferInv, WithinItsEnd, TransferParameters
  <2> QED BY <2>1, <2>2
<1>2. Spec => []TransferInv
  BY TransferInductive
<1> QED BY <1>1, <1>2, PTL

\* Where setstat got to is where the file is: the attributes before it are set,
\* the times among them at the end, and none behind it.
THEOREM AttributesAreKept == ASSUME TransferParameters PROVE Spec => []AttributesHold
<1>1. TransferInv => AttributesHold
  BY DEF TransferInv, SetInOrder, SoFar, AttributesHold
<1>2. Spec => []TransferInv
  BY TransferInductive
<1> QED BY <1>1, <1>2, PTL

(***************************************************************************)
(* How a bridge comes down. The provers know ENABLED, of which weak        *)
(* fairness speaks, by name only. So the one fact about it that is needed, *)
(* that an action can be taken where its guard holds, is a hypothesis.     *)
(***************************************************************************)

\* The guards are those of the actions, whose other conjuncts all give a primed
\* variable a value.
BridgeReady ==
  /\ link = "closing" => ENABLED <<RemoteAnswersClose>>_consoleVars
  /\ copier = "copying" /\ link = "down" /\ (displayed = produced \/ gone)
       => ENABLED <<CopierEnds>>_consoleVars
  /\ sizer = "waiting" /\ Finished => ENABLED <<SizerEnds>>_consoleVars
  /\ watcher = "waiting" /\ reader.done => ENABLED <<WatcherCloses>>_consoleVars
  /\ main = "waiting" /\ Done => ENABLED <<MainWakes>>_consoleVars
  /\ main = "joining" /\ Joined => ENABLED <<MainReturns>>_consoleVars

\* What the remote end has sent is shown in the end. It is finite once the link is
\* down, and the fairness of the copier does it: a countdown, which would have to
\* be proved by induction.
Drains == link = "down" ~> (displayed = produced \/ gone \/ copier = "ended")

\* An escape has closed the link, or its watcher has yet to.
EscapeCloses ==
  /\ transport = "ssh" /\ watcher = "ended" => Finished \/ (reader.done /\ link # "open")
  /\ transport = "termproxy" /\ reader.done => link # "open"
  /\ transport = "ssh" /\ Finished => link = "down"

\* Tear-down goes one way.
LEMMA BridgeMoves ==
  ASSUME ConsoleInv, [ConsoleNext]_consoleVars
  PROVE  /\ transport' = transport
         /\ reader.done => reader'.done
         /\ link = "down" => link' = "down"
         /\ link # "open" => link' # "open"
         /\ copier = "ended" => copier' = "ended"
         /\ sizer = "ended" => sizer' = "ended"
         /\ stdin = "ended" => stdin' = "ended"
         /\ Finished => Finished'
         /\ main = "returned" => main' = "returned"
         /\ link = "down" /\ (displayed = produced \/ gone) => displayed' = produced' \/ gone'
BY DEF ConsoleNext, UserTypes, Closing, UserHangsUp, StdinWrites, GuestReads, RemoteSends, RemoteExits,
   RemoteAnswersClose, CopierShows, CopierEnds, TerminalFails, SizerEnds, WatcherCloses, WatcherEnds,
   MainWakes, MainReturns, consoleVars, inputVars, outputVars, Finished, ConsoleInv, ConsoleTypeOK,
   ReaderTracks

LEMMA EscapeClosesKept == ConsoleInv /\ EscapeCloses /\ [ConsoleNext]_consoleVars => EscapeCloses'
<1> SUFFICES ASSUME ConsoleInv, EscapeCloses, [ConsoleNext]_consoleVars PROVE EscapeCloses'
  OBVIOUS
<1> QED BY DEF EscapeCloses, ConsoleNext, UserTypes, Closing, UserHangsUp, StdinWrites, GuestReads, RemoteSends,
     RemoteExits, RemoteAnswersClose, CopierShows, CopierEnds, TerminalFails, SizerEnds,
     WatcherCloses, WatcherEnds, MainWakes, Done, MainReturns, consoleVars, inputVars, outputVars, Finished,
     ConsoleInv, ConsoleTypeOK, ReaderTracks

\* A bridge whose goroutines get their turns, with a remote end that answers.
Fair == ConsoleSpec /\ []BridgeReady /\ Drains

LEMMA SpecEscapeCloses == ConsoleSpec => []EscapeCloses
<1>1. ConsoleInit => EscapeCloses
  BY DEF ConsoleInit, EscapeCloses, Finished
<1> QED BY <1>1, EscapeClosesKept, ConsoleInductive, PTL DEF ConsoleSpec

\* The watcher, or the end of the input, closes the link, and the remote end answers.
LEMMA EscapeBringsDown == Fair => (reader.done ~> (link = "down" \/ Finished))
<1> DEFINE Shut == ~(link = "open")
           Watched == watcher = "waiting"
<1>1. ConsoleInv /\ [ConsoleNext]_consoleVars
      => (reader.done => (reader.done)') /\ (Shut => Shut') /\ (Finished => Finished')
  BY BridgeMoves
<1>2. ConsoleInv /\ [ConsoleNext]_consoleVars /\ link = "closing"
      => (link = "closing")' \/ (link = "down")'
  <2>1. ASSUME ConsoleInv, [ConsoleNext]_consoleVars, link = "closing"
        PROVE  link' \in {"closing", "down"}
    <3>1. link' # "open"
      BY <2>1, BridgeMoves
    <3>2. link' \in {"open", "closing", "down"}
      BY <2>1, ConsoleStepHolds DEF ConsoleInv, ConsoleTypeOK
    <3> QED BY <3>1, <3>2
  <2> QED BY <2>1
<1>3. ConsoleInv /\ EscapeCloses /\ reader.done => Shut \/ Finished \/ Watched
  BY DEF ConsoleInv, ConsoleTypeOK, EscapeCloses, ReaderTracks, Transports
<1>4. ConsoleInv /\ Shut => link = "closing" \/ link = "down"
  BY DEF ConsoleInv, ConsoleTypeOK
<1>5. <<RemoteAnswersClose>>_consoleVars => (link = "down")'
  BY DEF RemoteAnswersClose
<1>6. <<WatcherCloses>>_consoleVars => ~Watched'
  BY DEF WatcherCloses
<1>7. BridgeReady => /\ link = "closing" => ENABLED <<RemoteAnswersClose>>_consoleVars
                     /\ Watched /\ reader.done => ENABLED <<WatcherCloses>>_consoleVars
  BY DEF BridgeReady
<1> HIDE DEF Shut, Watched
<1>8. Fair => (reader.done ~> (Shut \/ Finished))
  BY <1>1, <1>3, <1>6, <1>7, SpecEscapeCloses, ConsoleInductive, PTL
  DEF Fair, ConsoleSpec, ConsoleFairness
<1>9. Fair => (Shut ~> link = "down")
  BY <1>2, <1>4, <1>5, <1>7, ConsoleInductive, PTL DEF Fair, ConsoleSpec, ConsoleFairness
<1> QED BY <1>8, <1>9, PTL

\* The copiers of output end when the link is down.
LEMMA OutputEnds == Fair => (link = "down" ~> [](link = "down" /\ copier = "ended"))
<1> DEFINE Drained == displayed = produced \/ gone \/ copier = "ended"
<1>1. ConsoleInv /\ [ConsoleNext]_consoleVars
      => /\ link = "down" => (link = "down")'
         /\ copier = "ended" => (copier = "ended")'
         /\ link = "down" /\ Drained => Drained'
  BY BridgeMoves
<1>2. <<CopierEnds>>_consoleVars => (copier = "ended")'
  BY DEF CopierEnds
<1>3. ConsoleInv /\ BridgeReady /\ link = "down" /\ Drained
      => copier = "ended" \/ ENABLED <<CopierEnds>>_consoleVars
  BY DEF BridgeReady, ConsoleInv, ConsoleTypeOK
<1>4. Drains => (link = "down" ~> Drained)
  BY PTL DEF Drains
<1> HIDE DEF Drained
<1> QED
  BY <1>1, <1>2, <1>3, <1>4, ConsoleInductive, PTL DEF Fair, ConsoleSpec, ConsoleFairness

\* The function that waits sees that it is over ...
LEMMA DoneIsNoticed == Fair => (Done ~> Finished)
<1>1. ConsoleInv /\ [ConsoleNext]_consoleVars => (Done => Done')
  BY BridgeMoves DEF Done
<1>2. <<MainWakes>>_consoleVars => Finished'
  BY DEF MainWakes, Finished
<1>3. ConsoleInv /\ BridgeReady /\ Done => Finished \/ ENABLED <<MainWakes>>_consoleVars
  BY DEF BridgeReady, Finished
<1> QED
  BY <1>1, <1>2, <1>3, ConsoleInductive, PTL DEF Fair, ConsoleSpec, ConsoleFairness

\* ... and those it waits for end.
LEMMA FinishedReturns == Fair => (Finished ~> main = "returned")
<1> DEFINE Ended == sizer = "ended" /\ (transport = "ssh" => copier = "ended")
<1>1. ConsoleInv /\ [ConsoleNext]_consoleVars
      => /\ Finished => Finished'
         /\ sizer = "ended" => (sizer = "ended")'
         /\ transport = "ssh" => (transport = "ssh")'
         /\ ~(transport = "ssh") => ~(transport = "ssh")'
  BY BridgeMoves
<1>2. EscapeCloses /\ Finished /\ transport = "ssh" => link = "down"
  BY DEF EscapeCloses
<1>3. <<SizerEnds>>_consoleVars => (sizer = "ended")'
  BY DEF SizerEnds
<1>4. ConsoleInv /\ BridgeReady /\ Finished => sizer = "ended" \/ ENABLED <<SizerEnds>>_consoleVars
  BY DEF BridgeReady, ConsoleInv, ConsoleTypeOK
<1>5. <<MainReturns>>_consoleVars => (main = "returned")'
  BY DEF MainReturns
<1>6. ConsoleInv /\ BridgeReady /\ Finished /\ Ended
      => main = "returned" \/ ENABLED <<MainReturns>>_consoleVars
  BY DEF BridgeReady, ConsoleInv, ConsoleTypeOK, Finished, Joined
<1>7. Ended <=> sizer = "ended" /\ (transport = "ssh" => copier = "ended")
  OBVIOUS
<1> HIDE DEF Ended
<1>8. Fair => (Finished ~> []Ended)
  BY <1>1, <1>2, <1>3, <1>4, <1>7, OutputEnds, SpecEscapeCloses, ConsoleInductive, PTL
  DEF Fair, ConsoleSpec, ConsoleFairness
<1> QED
  BY <1>1, <1>5, <1>6, <1>8, ConsoleInductive, PTL DEF Fair, ConsoleSpec, ConsoleFairness

\* For input and output of any length: a user who escapes gets out, a remote end that
\* exits ends the session, and either end of a transfer does, though the guest neither
\* reads nor exits and the copier of stdin hangs in a write.
THEOREM BridgesComeDown == ConsoleSpec /\ []BridgeReady /\ Drains => BridgeEnds
<1> DEFINE Parted == transport = "sftp" /\ stdin = "ended"
<1>1. ConsoleInv /\ link = "down" /\ copier = "ended" => Done
  BY DEF Done
<1>2. Parted => Done
  BY DEF Done
<1> HIDE DEF Parted
<1>3. Fair => (link = "down" ~> Done)
  BY <1>1, OutputEnds, ConsoleInductive, PTL DEF Fair
<1>4. Fair => ((reader.done \/ link = "down" \/ Parted) ~> main = "returned")
  BY <1>2, <1>3, EscapeBringsDown, DoneIsNoticed, FinishedReturns, PTL
<1> QED BY <1>4 DEF BridgeEnds, Fair, Parted
=============================================================================
