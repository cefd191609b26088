------------------------- MODULE AccessCheck_proofs -------------------------
(***************************************************************************)
(* Proofs about AccessCheck, for any groups, targets and number of edits.  *)
(*                                                                         *)
(* The argument follows what a check has ruled out. As long as nothing was *)
(* given since it began (~grew), every membership it collected was held at *)
(* the start; as long as nothing was taken (~shrank), every membership     *)
(* held at the start has been, or will be, looked at, and every tier it    *)
(* has passed could not have granted at the start either.                  *)
(*                                                                         *)
(* With one edit there are two moments to choose from, the start and the   *)
(* present: OneEditInv says that what the check has read so far agrees     *)
(* with the tables of one of them.                                         *)
(***************************************************************************)
EXTENDS AccessCheck, TLAPS

Members(d) == d.mine \union d.theirs

\* What edits, grew and shrank say about the tables.
HistoryInv ==
  /\ edits = 0 => ~grew /\ ~shrank
  /\ ~grew => Within(tables, start)
  /\ ~shrank => Within(start, tables)

\* Nothing is collected before the first membership is read.
NothingYet == pc \in {"idle", "client", "mine"} => memb = {} /\ todo = {}

\* Nothing given: what was collected was held, what is allowed was allowed.
SoundSoFar ==
  ~grew =>
    /\ memb \subseteq Members(start)
    /\ todo \subseteq memb
    /\ pc = "done" /\ answer => Allowed(start, target)

\* Nothing taken: what was passed could not have granted.
CompleteSoFar ==
  ~shrank =>
    /\ pc \in {"mine", "theirs", "group"} => ~Has(start, Client, target)
    /\ pc = "theirs" => start.mine \subseteq memb
    /\ pc = "group" => /\ Members(start) \subseteq memb
                       /\ \A g \in memb \ todo : ~Has(start, g, target)
    /\ pc = "done" /\ ~answer => ~Allowed(start, target)

IInv == TypeOK /\ HistoryInv /\ NothingYet /\ SoundSoFar /\ CompleteSoFar

-----------------------------------------------------------------------------
(* Lemmas.                                                                   *)

\* Within is an order.
LEMMA WithinReflexive == \A d \in Tables : Within(d, d)
BY DEF Within

LEMMA WithinTransitive ==
  ASSUME NEW c \in Tables, NEW d \in Tables, NEW e \in Tables,
         Within(c, d), Within(d, e)
  PROVE  Within(c, e)
BY DEF Within

\* A rule is in every table that gives at least as much.
LEMMA HasMonotone ==
  ASSUME NEW d, NEW e, Within(d, e), NEW s, NEW t, Has(d, s, t)
  PROVE  Has(e, s, t)
BY DEF Has, Within

LEMMA InitIInv == Init => IInv
<1> SUFFICES ASSUME Init PROVE IInv
  OBVIOUS
<1>1. tables \in Tables
  BY AccessAssumption DEF Init, Tables
<1>2. TypeOK
  <2>1. 0 \in 0..MaxEdits
    BY AccessAssumption
  <2> QED
    BY <1>1, <2>1 DEF Init, TypeOK
<1>3. HistoryInv
  BY <1>1, WithinReflexive DEF Init, HistoryInv
<1>4. NothingYet /\ SoundSoFar /\ CompleteSoFar
  BY DEF Init, NothingYet, SoundSoFar, CompleteSoFar
<1> QED
  BY <1>2, <1>3, <1>4 DEF IInv

\* Edits: they change the tables, note what they gave and took, and leave the
\* check where it is.
LEMMA EditStep ==
  ASSUME IInv, Edit
  PROVE  IInv'
<1>1. /\ tables' \in Tables
      /\ clientRow' \in BOOLEAN
      /\ groupRows' \subseteq Groups
      /\ gone' \subseteq Groups \ groupRows'
  <2> USE DEF IInv, TypeOK, Tables, rowVars
  <2>1. ASSUME NEW s \in Subjects, NEW ts \in (SUBSET Guests) \union (SUBSET Nodes), Grant(s, ts)
        PROVE  <1>1
    <3>1. ts \subseteq Targets
      BY DEF Targets
    <3>2. {[subject |-> s, target |-> t] : t \in ts} \subseteq Rule
      BY <3>1 DEF Rule
    <3> QED
      BY <2>1, <3>2 DEF Grant
  <2>2. ASSUME NEW s \in Subjects, NEW t \in Targets, Revoke(s, t)
        PROVE  <1>1
    BY <2>2 DEF Revoke
  <2>3. ASSUME NEW gs \in SUBSET Groups, UpdateClient(gs) PROVE <1>1
    BY <2>3 DEF UpdateClient
  <2>4. CASE RemoveClient
    BY <2>4 DEF RemoveClient
  <2>5. ASSUME NEW g \in Groups, NEW named \in BOOLEAN,
               AddGroup(g, named) \/ UpdateGroup(g, named)
        PROVE  <1>1
    BY <2>5 DEF AddGroup, UpdateGroup
  <2>6. ASSUME NEW g \in Groups, RemoveGroup(g) PROVE <1>1
    BY <2>6 DEF RemoveGroup
  <2>7. ASSUME NEW p \in Policies, SetDefaultPolicy(p) PROVE <1>1
    BY <2>7, AccessAssumption DEF SetDefaultPolicy
  <2>8. ASSUME NEW ts \in SUBSET Targets, RemoveTargets(ts) PROVE <1>1
    BY <2>8 DEF RemoveTargets
  <2> QED
    BY <2>1, <2>2, <2>3, <2>4, <2>5, <2>6, <2>7, <2>8 DEF Edit
<1>2. Commits
  BY DEF Edit, Grant, Revoke, UpdateClient, RemoveClient, AddGroup, UpdateGroup,
     RemoveGroup, SetDefaultPolicy, RemoveTargets
<1>3. tables \in Tables /\ start \in Tables
  BY DEF IInv, TypeOK
<1>4. TypeOK'
  <2>1. edits' \in 0..MaxEdits
    BY <1>2, AccessAssumption DEF IInv, TypeOK, Commits
  <2>2. start' \in Tables
    BY <1>1, <1>2, <1>3 DEF Commits
  <2>3. /\ grew' \in BOOLEAN /\ shrank' \in BOOLEAN
        /\ wasAllowed' \in BOOLEAN /\ wasDenied' \in BOOLEAN
    BY <1>2, Zenon DEF IInv, TypeOK, Commits
  <2>4. UNCHANGED checkVars
    BY <1>2 DEF Commits
  <2> QED
    BY <1>1, <2>1, <2>2, <2>3, <2>4 DEF IInv, TypeOK, checkVars
<1>5. HistoryInv'
  <2>1. CASE pc = "idle"
    BY <1>1, <1>2, <2>1, WithinReflexive DEF IInv, HistoryInv, Commits
  <2>2. CASE pc # "idle"
    <3>1. /\ start' = start /\ edits' = edits + 1
          /\ grew' = (grew \/ ~Within(tables', tables))
          /\ shrank' = (shrank \/ ~Within(tables, tables'))
      BY <1>2, <2>2 DEF Commits
    <3>2. edits' # 0
      BY <3>1 DEF IInv, TypeOK
    <3>3. ~grew' => Within(tables', start)
      BY <3>1, <1>1, <1>3, WithinTransitive DEF IInv, HistoryInv
    <3>4. ~shrank' => Within(start, tables')
      BY <3>1, <1>1, <1>3, WithinTransitive DEF IInv, HistoryInv
    <3> QED
      BY <3>1, <3>2, <3>3, <3>4 DEF HistoryInv
  <2> QED
    BY <2>1, <2>2
<1>6. NothingYet' /\ SoundSoFar' /\ CompleteSoFar'
  <2>1. CASE pc = "idle"
    BY <1>2, <2>1 DEF IInv, NothingYet, SoundSoFar, CompleteSoFar, Commits, checkVars
  <2>2. CASE pc # "idle"
    BY <1>2, <2>2 DEF IInv, NothingYet, SoundSoFar, CompleteSoFar, Commits, checkVars
  <2> QED
    BY <2>1, <2>2
<1> QED
  BY <1>4, <1>5, <1>6 DEF IInv

\* Begin: the check starts from the tables as they are.
LEMMA BeginStep ==
  ASSUME IInv, NEW t \in Targets, Begin(t)
  PROVE  IInv'
<1>1. TypeOK'
  <2>1. t # NoTarget /\ 0 \in 0..MaxEdits
    BY AccessAssumption
  <2>2. Allowed(tables, t) \in BOOLEAN
    BY DEF Allowed
  <2> QED
    BY <2>1, <2>2 DEF IInv, TypeOK, Begin, rowVars
<1>2. HistoryInv'
  BY WithinReflexive DEF IInv, TypeOK, HistoryInv, Begin
<1>3. NothingYet' /\ SoundSoFar' /\ CompleteSoFar'
  BY DEF NothingYet, SoundSoFar, CompleteSoFar, Begin
<1> QED
  BY <1>1, <1>2, <1>3 DEF IInv

LEMMA ClientRuleStep ==
  ASSUME IInv, ClientRule
  PROVE  IInv'
<1> USE DEF IInv, Answers
<1>1. TypeOK'
  BY DEF TypeOK, ClientRule, rowVars, histVars
<1>2. HistoryInv' /\ NothingYet'
  BY DEF HistoryInv, NothingYet, ClientRule, histVars
<1>3. SoundSoFar'
  <2>1. ~grew /\ Has(tables, Client, target) => Allowed(start, target)
    BY HasMonotone DEF HistoryInv, Allowed
  <2> QED
    BY <2>1 DEF SoundSoFar, NothingYet, ClientRule, histVars
<1>4. CompleteSoFar'
  <2>1. ~shrank /\ ~Has(tables, Client, target) => ~Has(start, Client, target)
    BY HasMonotone DEF HistoryInv
  <2> QED
    BY <2>1 DEF CompleteSoFar, ClientRule, histVars
<1> QED
  BY <1>1, <1>2, <1>3, <1>4

LEMMA ReadMineStep ==
  ASSUME IInv, ReadMine
  PROVE  IInv'
<1> USE DEF IInv
<1>1. TypeOK'
  BY DEF TypeOK, Tables, ReadMine, rowVars, histVars
<1>2. HistoryInv' /\ NothingYet'
  BY DEF HistoryInv, NothingYet, ReadMine, histVars
<1>3. SoundSoFar'
  BY DEF SoundSoFar, HistoryInv, NothingYet, Within, Members, ReadMine, histVars
<1>4. CompleteSoFar'
  BY DEF CompleteSoFar, HistoryInv, Within, ReadMine, histVars
<1> QED
  BY <1>1, <1>2, <1>3, <1>4

LEMMA ReadTheirsStep ==
  ASSUME IInv, ReadTheirs
  PROVE  IInv'
<1> USE DEF IInv
<1>1. TypeOK'
  BY DEF TypeOK, Tables, ReadTheirs, rowVars, histVars
<1>2. HistoryInv' /\ NothingYet'
  BY DEF HistoryInv, NothingYet, ReadTheirs, histVars
<1>3. SoundSoFar'
  BY DEF SoundSoFar, HistoryInv, Within, Members, ReadTheirs, histVars
<1>4. CompleteSoFar'
  BY DEF CompleteSoFar, HistoryInv, Within, Members, ReadTheirs, histVars
<1> QED
  BY <1>1, <1>2, <1>3, <1>4

LEMMA GroupRuleStep ==
  ASSUME IInv, NEW g \in Groups, GroupRule(g)
  PROVE  IInv'
<1> USE DEF IInv, Answers
<1>1. TypeOK'
  BY DEF TypeOK, GroupRule, rowVars, histVars
<1>2. HistoryInv' /\ NothingYet'
  BY DEF HistoryInv, NothingYet, GroupRule, histVars
<1>3. SoundSoFar'
  <2>1. ~grew /\ Has(tables, g, target) => Allowed(start, target)
    BY HasMonotone DEF HistoryInv, SoundSoFar, GroupRule, Members, Allowed
  <2> QED
    BY <2>1 DEF SoundSoFar, GroupRule, histVars
<1>4. CompleteSoFar'
  <2>1. ~shrank /\ ~Has(tables, g, target) => ~Has(start, g, target)
    BY HasMonotone DEF HistoryInv
  <2> QED
    BY <2>1 DEF CompleteSoFar, GroupRule, histVars
<1> QED
  BY <1>1, <1>2, <1>3, <1>4

\* The last tier: nothing is left to look up, so memb holds all there is.
LEMMA DefaultPolicyStep ==
  ASSUME IInv, DefaultPolicy
  PROVE  IInv'
<1> DEFINE p == tables.policy
           q == start.policy
           granted == /\ target \in Guests \/ p.node
                      /\ p.client \/ p.groups \intersect memb # {}
<1>1. pc = "group" /\ todo = {} /\ Answers(granted) /\ UNCHANGED <<memb, todo>>
  BY DEF DefaultPolicy
<1>2. TypeOK'
  BY <1>1 DEF IInv, TypeOK, Answers, rowVars, histVars
<1>3. HistoryInv' /\ NothingYet'
  BY <1>1 DEF IInv, HistoryInv, NothingYet, Answers, histVars
<1>4. ~grew /\ granted => Allowed(start, target)
  <2> SUFFICES ASSUME ~grew, granted PROVE Allowed(start, target)
    OBVIOUS
  <2>1. memb \subseteq Members(start) /\ Within(tables, start)
    BY DEF IInv, SoundSoFar, HistoryInv
  <2>2. target \in Guests \/ q.node
    BY <2>1 DEF Within
  <2>3. q.client \/ q.groups \intersect Members(start) # {}
    BY <2>1 DEF Within
  <2> QED
    BY <2>2, <2>3 DEF Allowed, Members
<1>5. ~shrank /\ Allowed(start, target) => granted
  <2> SUFFICES ASSUME ~shrank, Allowed(start, target) PROVE granted
    OBVIOUS
  <2>1. /\ Members(start) \subseteq memb /\ Within(start, tables)
        /\ ~Has(start, Client, target)
        /\ \A g \in memb : ~Has(start, g, target)
    BY <1>1 DEF IInv, CompleteSoFar, HistoryInv
  <2>2. /\ target \in Guests \/ q.node
        /\ q.client \/ q.groups \intersect Members(start) # {}
    BY <2>1 DEF Allowed, Members
  <2> QED
    BY <2>1, <2>2 DEF Within
<1>6. SoundSoFar'
  BY <1>1, <1>4 DEF IInv, SoundSoFar, Answers, histVars
<1>7. CompleteSoFar'
  BY <1>1, <1>5 DEF IInv, CompleteSoFar, Answers, histVars
<1> QED
  BY <1>2, <1>3, <1>6, <1>7 DEF IInv

LEMMA ReturnStep ==
  ASSUME IInv, Return
  PROVE  IInv'
<1>1. TypeOK'
  <2>1. 0 \in 0..MaxEdits
    BY AccessAssumption
  <2> QED
    BY <2>1 DEF IInv, TypeOK, Return, rowVars
<1>2. HistoryInv'
  BY WithinReflexive DEF IInv, TypeOK, HistoryInv, Return
<1>3. NothingYet' /\ SoundSoFar' /\ CompleteSoFar'
  BY DEF NothingYet, SoundSoFar, CompleteSoFar, Return
<1> QED
  BY <1>1, <1>2, <1>3 DEF IInv

-----------------------------------------------------------------------------
(* One edit under a check. The check agrees throughout with the tables before *)
(* the edit or with those after it: when it reads what the edit has changed,  *)
(* nothing it has read before was changed too.                                *)

\* At most one of the four things a check reads has changed, and rules have
\* only been added or only been removed.
OneChange(d, e) ==
  /\ \/ d.theirs = e.theirs /\ d.rules = e.rules /\ d.policy = e.policy
     \/ d.mine = e.mine /\ d.rules = e.rules /\ d.policy = e.policy
     \/ d.mine = e.mine /\ d.theirs = e.theirs /\ d.policy = e.policy
     \/ d.mine = e.mine /\ d.theirs = e.theirs /\ d.rules = e.rules
  /\ d.rules \subseteq e.rules \/ e.rules \subseteq d.rules

\* What the check has found so far is what it would have found in d.
Agrees(d) ==
  /\ pc \in {"mine", "theirs", "group"} => ~Has(d, Client, target)
  /\ pc = "theirs" => memb = d.mine
  /\ pc = "group" => /\ memb = Members(d)
                     /\ \A g \in memb \ todo : ~Has(d, g, target)
  /\ pc = "done" => (answer <=> Allowed(d, target))

OneEditInv ==
  /\ pc = "idle" => edits = 0
  /\ edits = 0 => tables = start
  /\ edits = 1 => OneChange(start, tables)
  /\ pc # "idle" =>
       \A d \in {start, tables} :
         /\ Allowed(d, target) => wasAllowed
         /\ ~Allowed(d, target) => wasDenied
  /\ edits <= 1 => Agrees(start) \/ Agrees(tables)
  /\ pc = "group" => todo \subseteq memb

\* Each edit is one change.
LEMMA EditIsOneChange ==
  ASSUME IInv, Edit
  PROVE  OneChange(tables, tables')
<1> USE DEF IInv, TypeOK, Tables, OneChange
<1>1. ASSUME NEW s \in Subjects, NEW ts \in (SUBSET Guests) \union (SUBSET Nodes), Grant(s, ts)
      PROVE  OneChange(tables, tables')
  BY <1>1 DEF Grant
<1>2. ASSUME NEW s \in Subjects, NEW t \in Targets, Revoke(s, t)
      PROVE  OneChange(tables, tables')
  BY <1>2 DEF Revoke
<1>3. ASSUME NEW gs \in SUBSET Groups, UpdateClient(gs)
      PROVE  OneChange(tables, tables')
  BY <1>3 DEF UpdateClient
<1>4. CASE RemoveClient
  BY <1>4 DEF RemoveClient
<1>5. ASSUME NEW g \in Groups, NEW named \in BOOLEAN,
             AddGroup(g, named) \/ UpdateGroup(g, named)
      PROVE  OneChange(tables, tables')
  BY <1>5 DEF AddGroup, UpdateGroup
<1>6. ASSUME NEW g \in Groups, RemoveGroup(g)
      PROVE  OneChange(tables, tables')
  BY <1>6 DEF RemoveGroup
<1>7. ASSUME NEW p \in Policies, SetDefaultPolicy(p)
      PROVE  OneChange(tables, tables')
  BY <1>7 DEF SetDefaultPolicy
<1>8. ASSUME NEW ts \in SUBSET Targets, RemoveTargets(ts)
      PROVE  OneChange(tables, tables')
  BY <1>8 DEF RemoveTargets
<1> QED
  BY <1>1, <1>2, <1>3, <1>4, <1>5, <1>6, <1>7, <1>8 DEF Edit

\* An edit falls into the check, or between two.
LEMMA EditKeepsOneEditInv ==
  ASSUME IInv, OneEditInv, Edit
  PROVE  OneEditInv'
<1>1. Commits
  BY DEF Edit, Grant, Revoke, UpdateClient, RemoveClient, AddGroup, UpdateGroup,
     RemoveGroup, SetDefaultPolicy, RemoveTargets
<1>2. OneChange(tables, tables')
  BY EditIsOneChange
<1>3. CASE pc = "idle"
  <2>1. edits = 0
    BY <1>3 DEF OneEditInv
  <2> QED
    BY <1>1, <1>3, <2>1 DEF OneEditInv, Agrees, Commits, checkVars
<1>4. CASE pc # "idle"
  <2>1. /\ pc \notin {"idle", "done"}
        /\ start' = start /\ edits' = edits + 1 /\ edits \in Nat
        /\ wasAllowed' = (wasAllowed \/ Allowed(tables', target))
        /\ wasDenied' = (wasDenied \/ ~Allowed(tables', target))
        /\ UNCHANGED checkVars
    BY <1>1, <1>4 DEF Commits, IInv, TypeOK
  <2>2. edits' # 0
    BY <2>1
  <2>3. edits' = 1 => OneChange(start', tables')
    BY <1>2, <2>1 DEF OneEditInv
  <2>4. \A d \in {start', tables'} :
          /\ Allowed(d, target') => wasAllowed'
          /\ ~Allowed(d, target') => wasDenied'
    BY <1>4, <2>1 DEF OneEditInv, checkVars
  <2>5. edits' <= 1 => Agrees(start)'
    <3>1. edits' <= 1 => Agrees(start)
      BY <2>1 DEF OneEditInv
    <3> QED
      BY <2>1, <3>1 DEF Agrees, checkVars
  <2> QED
    BY <2>1, <2>2, <2>3, <2>4, <2>5 DEF OneEditInv, checkVars
<1> QED
  BY <1>3, <1>4

\* The check begins, and ends.
LEMMA EndsKeepOneEditInv ==
  ASSUME IInv, OneEditInv, (\E t \in Targets : Begin(t)) \/ Return
  PROVE  OneEditInv'
<1>1. CASE Return
  BY <1>1 DEF OneEditInv, Agrees, Return
<1>2. ASSUME NEW t \in Targets, Begin(t) PROVE OneEditInv'
  BY <1>2 DEF OneEditInv, Agrees, Begin
<1> QED
  BY <1>1, <1>2

\* What a statement of the check leaves alone.
Reads == UNCHANGED <<tables, target, histVars>>

\* A statement keeps the rest of the invariant if the check agrees with the
\* tables of one instant after it.
LEMMA ReadsKeepOneEditInv ==
  ASSUME OneEditInv, Reads, pc # "idle", pc' # "idle",
         edits <= 1 => Agrees(start)' \/ Agrees(tables)',
         pc' = "group" => todo' \subseteq memb'
  PROVE  OneEditInv'
BY DEF OneEditInv, Reads, histVars

LEMMA ClientRuleKeeps ==
  ASSUME IInv, OneEditInv, ClientRule
  PROVE  OneEditInv'
<1>1. Reads /\ pc = "client" /\ pc' \in {"mine", "done"}
  BY DEF ClientRule, Answers, Reads
<1>2. Agrees(tables)'
  BY DEF ClientRule, Answers, Agrees, Allowed, histVars
<1> QED
  BY <1>1, <1>2, ReadsKeepOneEditInv

LEMMA ReadMineKeeps ==
  ASSUME IInv, OneEditInv, ReadMine
  PROVE  OneEditInv'
<1>1. Reads /\ pc = "mine" /\ pc' = "theirs" /\ memb' = tables.mine
  BY DEF ReadMine, Reads
<1>2. ASSUME edits <= 1 PROVE Agrees(start)' \/ Agrees(tables)'
  <2>1. CASE Agrees(tables)
    BY <1>1, <2>1 DEF Agrees, Reads
  <2>2. CASE Agrees(start) /\ start.mine = tables.mine
    BY <1>1, <2>2 DEF Agrees, Reads, histVars
  <2>3. CASE Agrees(start) /\ start.mine # tables.mine
    <3>1. OneChange(start, tables)
      BY <1>2, <2>3 DEF OneEditInv, IInv, TypeOK
    <3>2. start.rules = tables.rules
      BY <2>3, <3>1 DEF OneChange
    <3> QED
      BY <1>1, <2>3, <3>2 DEF Agrees, Has, Reads
  <2> QED
    BY <1>2, <2>1, <2>2, <2>3 DEF OneEditInv
<1> QED
  BY <1>1, <1>2, ReadsKeepOneEditInv

LEMMA ReadTheirsKeeps ==
  ASSUME IInv, OneEditInv, ReadTheirs
  PROVE  OneEditInv'
<1>1. /\ Reads /\ pc = "theirs" /\ pc' = "group"
      /\ memb' = memb \union tables.theirs /\ todo' = memb'
  BY DEF ReadTheirs, Reads
<1>2. ASSUME edits <= 1 PROVE Agrees(start)' \/ Agrees(tables)'
  <2>1. CASE Agrees(tables)
    BY <1>1, <2>1 DEF Agrees, Members, Reads
  <2>2. CASE Agrees(start) /\ start.theirs = tables.theirs
    BY <1>1, <2>2 DEF Agrees, Members, Reads, histVars
  <2>3. CASE Agrees(start) /\ start.theirs # tables.theirs
    <3>1. OneChange(start, tables)
      BY <1>2, <2>3 DEF OneEditInv, IInv, TypeOK
    <3>2. start.rules = tables.rules /\ start.mine = tables.mine
      BY <2>3, <3>1 DEF OneChange
    <3> QED
      BY <1>1, <2>3, <3>2 DEF Agrees, Members, Has, Reads
  <2> QED
    BY <1>2, <2>1, <2>2, <2>3 DEF OneEditInv
<1> QED
  BY <1>1, <1>2, ReadsKeepOneEditInv

\* Rules that were removed were not there for the groups before this one either;
\* rules that were added are seen now or do not matter to what was found.
LEMMA GroupRuleKeeps ==
  ASSUME IInv, OneEditInv, NEW g \in Groups, GroupRule(g)
  PROVE  OneEditInv'
<1>1. Reads /\ pc = "group" /\ memb' = memb /\ g \in memb
  BY DEF GroupRule, Answers, Reads, OneEditInv, histVars
<1>2. CASE Has(tables, g, target)
  <2>1. pc' = "done" /\ answer' = TRUE
    BY <1>2 DEF GroupRule, Answers
  <2>2. ASSUME edits <= 1 PROVE Agrees(start)' \/ Agrees(tables)'
    <3>1. CASE memb = Members(tables)
      BY <1>1, <1>2, <2>1, <3>1 DEF Agrees, Allowed, Members, Reads
    <3>2. CASE memb # Members(tables)
      <4>1. Agrees(start) /\ memb = Members(start)
        BY <1>1, <2>2, <3>2 DEF OneEditInv, Agrees
      <4>2. OneChange(start, tables)
        BY <2>2, <3>2, <4>1 DEF OneEditInv, IInv, TypeOK
      <4>3. start.rules = tables.rules
        BY <3>2, <4>1, <4>2 DEF OneChange, Members
      <4> QED
        BY <1>1, <1>2, <2>1, <4>1, <4>3 DEF Agrees, Allowed, Members, Has, Reads, histVars
    <3> QED
      BY <3>1, <3>2
  <2> QED
    BY <1>1, <2>1, <2>2, ReadsKeepOneEditInv
<1>3. CASE ~Has(tables, g, target)
  <2>1. pc' = "group" /\ todo' = todo \ {g}
    BY <1>1, <1>3 DEF GroupRule
  <2>2. ASSUME edits <= 1 PROVE Agrees(start)' \/ Agrees(tables)'
    <3>1. CASE Agrees(tables)
      BY <1>1, <1>3, <2>1, <3>1 DEF Agrees, Members, Reads
    <3>2. CASE Agrees(start) /\ ~Has(start, g, target)
      BY <1>1, <2>1, <3>2 DEF Agrees, Members, Reads, histVars
    <3>3. CASE Agrees(start) /\ Has(start, g, target)
      <4>1. OneChange(start, tables)
        BY <1>3, <2>2, <3>3 DEF OneEditInv, IInv, TypeOK
      <4>2. /\ tables.rules \subseteq start.rules
            /\ start.mine = tables.mine /\ start.theirs = tables.theirs
        BY <1>3, <3>3, <4>1 DEF OneChange, Has
      <4> QED
        BY <1>1, <1>3, <2>1, <3>3, <4>2 DEF Agrees, Members, Has, Reads
    <3> QED
      BY <2>2, <3>1, <3>2, <3>3 DEF OneEditInv
  <2>3. todo' \subseteq memb'
    BY <1>1, <2>1 DEF OneEditInv
  <2> QED
    BY <1>1, <2>1, <2>2, <2>3, ReadsKeepOneEditInv
<1> QED
  BY <1>2, <1>3

LEMMA DefaultPolicyKeeps ==
  ASSUME IInv, OneEditInv, DefaultPolicy
  PROVE  OneEditInv'
<1> DEFINE Grants(d) == /\ target \in Guests \/ d.policy.node
                        /\ d.policy.client \/ d.policy.groups \intersect memb # {}
<1>1. /\ Reads /\ pc = "group" /\ todo = {} /\ pc' = "done"
      /\ memb' = memb /\ (answer' <=> Grants(tables))
  BY DEF DefaultPolicy, Answers, Reads
<1>2. ASSUME NEW d, Agrees(d) PROVE Allowed(d, target) <=> Grants(d)
  <2>1. /\ memb = Members(d) /\ ~Has(d, Client, target)
        /\ \A g \in memb : ~Has(d, g, target)
    BY <1>1, <1>2 DEF Agrees
  <2> QED
    BY <2>1 DEF Allowed, Members
<1>3. ASSUME edits <= 1 PROVE Agrees(start)' \/ Agrees(tables)'
  <2>1. CASE Agrees(tables)
    <3>1. Allowed(tables, target) <=> Grants(tables)
      BY <1>2, <2>1
    <3>2. answer' <=> Allowed(tables', target')
      BY <1>1, <3>1 DEF Reads
    <3> QED
      BY <1>1, <3>2 DEF Agrees
  <2>2. CASE Agrees(start) /\ start.policy = tables.policy
    <3>1. Allowed(start, target) <=> Grants(tables)
      BY <1>2, <2>2
    <3>2. answer' <=> Allowed(start', target')
      BY <1>1, <3>1 DEF Reads, histVars
    <3> QED
      BY <1>1, <3>2 DEF Agrees
  <2>3. CASE Agrees(start) /\ start.policy # tables.policy
    <3>1. OneChange(start, tables)
      BY <1>3, <2>3 DEF OneEditInv, IInv, TypeOK
    <3>2. /\ start.mine = tables.mine /\ start.theirs = tables.theirs
          /\ start.rules = tables.rules
      BY <2>3, <3>1 DEF OneChange
    <3>3. Agrees(tables)
      BY <1>1, <2>3, <3>2 DEF Agrees, Members, Has
    <3> QED
      BY <2>1, <3>3
  <2> QED
    BY <1>3, <2>1, <2>2, <2>3 DEF OneEditInv
<1> QED
  BY <1>1, <1>3, ReadsKeepOneEditInv

LEMMA SpecIInv == Spec => []IInv
<1>1. IInv /\ [Next]_vars => IInv'
  <2> SUFFICES ASSUME IInv, [Next]_vars PROVE IInv'
    OBVIOUS
  <2>1. CASE Check
    BY <2>1, BeginStep, ClientRuleStep, ReadMineStep, ReadTheirsStep, GroupRuleStep,
       DefaultPolicyStep, ReturnStep DEF Check
  <2>2. CASE Edit
    BY <2>2, EditStep
  <2>3. CASE UNCHANGED vars
    BY <2>3 DEF vars, rowVars, checkVars, histVars, IInv, TypeOK, HistoryInv,
       NothingYet, SoundSoFar, CompleteSoFar
  <2> QED
    BY <2>1, <2>2, <2>3 DEF Next
<1> QED
  BY <1>1, InitIInv, PTL DEF Spec

LEMMA SpecOneEditInv == Spec => []OneEditInv
<1>1. Init => OneEditInv
  BY DEF Init, OneEditInv, Agrees
<1>2. IInv /\ OneEditInv /\ [Next]_vars => OneEditInv'
  <2> SUFFICES ASSUME IInv, OneEditInv, [Next]_vars PROVE OneEditInv'
    OBVIOUS
  <2>1. CASE Check
    BY <2>1, EndsKeepOneEditInv, ClientRuleKeeps, ReadMineKeeps, ReadTheirsKeeps, GroupRuleKeeps,
       DefaultPolicyKeeps DEF Check
  <2>2. CASE Edit
    BY <2>2, EditKeepsOneEditInv
  <2>3. CASE UNCHANGED vars
    BY <2>3 DEF vars, rowVars, checkVars, histVars, OneEditInv, Agrees
  <2> QED
    BY <2>1, <2>2, <2>3 DEF Next
<1> QED
  BY <1>1, <1>2, SpecIInv, PTL DEF Spec

-----------------------------------------------------------------------------
(* The theorems.                                                             *)

\* The variables of the check and of the tables keep their types.
THEOREM TypeCorrect == Spec => []TypeOK
<1>1. IInv => TypeOK
  BY DEF IInv
<1> QED
  BY <1>1, SpecIInv, PTL

\* Revocations alone never make a check allow, nor grants alone make it deny,
\* however many of them it overlaps.
THEOREM EditsAreMonotone == Spec => []MonotoneEdits
<1>1. IInv => MonotoneEdits
  BY DEF IInv, SoundSoFar, CompleteSoFar, MonotoneEdits
<1> QED
  BY <1>1, SpecIInv, PTL

\* A check nobody disturbs answers exactly what is owed.
THEOREM UndisturbedChecksAreExact == Spec => []UndisturbedIsExact
<1>1. IInv => UndisturbedIsExact
  <2> SUFFICES ASSUME IInv, pc = "done", edits = 0
               PROVE  answer = Allowed(start, target)
    BY DEF UndisturbedIsExact
  <2>1. ~grew /\ ~shrank
    BY DEF IInv, HistoryInv
  <2>2. answer <=> Allowed(start, target)
    BY <2>1 DEF IInv, SoundSoFar, CompleteSoFar
  <2>3. answer \in BOOLEAN /\ Allowed(start, target) \in BOOLEAN
    BY DEF IInv, TypeOK, Allowed
  <2> QED
    BY <2>2, <2>3
<1> QED
  BY <1>1, SpecIInv, PTL

\* One edit in the middle never makes an answer that was right at no instant of
\* the check, whatever it edits and whichever statements it falls between.
THEOREM OneEditIsLinearized == Spec => []OneEditLinearizable
<1>1. IInv /\ OneEditInv => OneEditLinearizable
  <2> SUFFICES ASSUME IInv, OneEditInv, pc = "done", edits <= 1
               PROVE  IF answer THEN wasAllowed ELSE wasDenied
    BY DEF OneEditLinearizable
  <2>1. PICK d \in {start, tables} : Agrees(d)
    BY DEF OneEditInv
  <2>2. answer <=> Allowed(d, target)
    BY <2>1 DEF Agrees
  <2> QED
    BY <2>2 DEF OneEditInv
<1> QED
  BY <1>1, SpecIInv, SpecOneEditInv, PTL
=============================================================================
