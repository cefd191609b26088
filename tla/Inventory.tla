----------------------------- MODULE Inventory -----------------------------
(***************************************************************************)
(* The inventory of proxpass: the Proxmox instances an administrator has   *)
(* registered, the guests discovery has stored for them, and the access    *)
(* rules that name the rows of both tables by id.                          *)
(*                                                                         *)
(* Two kinds of actors write these tables at the same time: discovery      *)
(* passes (the background loop, the handlers RunDiscovery and AddInstance, *)
(* the commands "discover" and "instance add"), which store one guest at   *)
(* a time with several statements, and administrators, who add and remove  *)
(* instances and grant and revoke access by row id.                        *)
(*                                                                         *)
(* One step is one SQL statement, or one transaction where the code opens  *)
(* one; everything between two statements of a pass can be interleaved     *)
(* with anybody else's.                                                    *)
(***************************************************************************)
EXTENDS Integers, Sequences, FiniteSets

CONSTANTS
  Hosts,           (* Proxmox hosts, told apart by their API URL              *)
  Vmids,           (* guest numbers (proxmox_id) on a host                    *)
  Containers,      (* the vmids listed by the lxc endpoint, the rest by qemu  *)
  Subjects,        (* clients and groups: the <<type, subject_id>> of a rule  *)
  Drivers,         (* who runs discovery passes                               *)
  Loop,            (* the background loop, a driver where it takes part       *)
  NoHost,          (* the host of an instance id not assigned yet             *)
  Registered,      (* hosts of the instances already stored when serve starts *)
  MaxInstances,    (* bound: instance rows ever inserted                      *)
  MaxGuestRows,    (* bound: guest rows ever inserted                         *)
  MaxGrants,       (* bound: targets ever granted                             *)
  MaxDisturbances  (* bound: host changes, failures and crashes together      *)

ASSUME InventoryAssumption ==
  /\ Containers \subseteq Vmids
  /\ NoHost \notin Hosts
  /\ MaxInstances \in Nat
  /\ MaxGuestRows \in Nat
  /\ MaxGrants \in Nat
  /\ MaxDisturbances \in Nat
  /\ Vmids # {}
  /\ Registered \in Seq(Hosts) /\ Len(Registered) <= MaxInstances

InstanceIds == 1..MaxInstances

\* One goroutine of a driver: the pass of one instance.
Passes == Drivers \X InstanceIds

Guest     == [id : Nat, inst : InstanceIds, vmid : Vmids]
GuestRule == [subject : Subjects, guest : Nat]
NodeRule  == [subject : Subjects, inst : InstanceIds]

VARIABLES
  (* the database *)
  instances,     (* ids of the rows of proxmox_instances                      *)
  hostOf,        (* the host an instance id was registered with               *)
  nextInstance,  (* the AUTOINCREMENT sequence of proxmox_instances           *)
  guests,        (* rows of guests                                            *)
  nextGuest,     (* the AUTOINCREMENT sequence of guests                      *)
  rules,         (* rows of access_rules                                      *)
  nodeRules,     (* rows of instance_access_rules                             *)
  (* the world *)
  running,       (* the guests running on each host                           *)
  budget,        (* disturbances left                                         *)
  (* the discovery passes *)
  pc,            (* where a pass is in discoverInstance and StoreGuests       *)
  listed,        (* the running guests it was told of                         *)
  todo,          (* those of them not stored yet                              *)
  live,          (* the vmids it will keep when it prunes                     *)
  cur,           (* the guest being upserted                                  *)
  hit,           (* the row its SELECT found, 0 for none                      *)
  (* history, read by the properties only *)
  shown,         (* every guest row there ever was: what an admin may name    *)
  intent,        (* guest grants with the guest the administrator meant       *)
  nodeIntent     (* node grants with the host the administrator meant         *)

dbVars    == <<instances, hostOf, nextInstance, guests, nextGuest, rules, nodeRules>>
worldVars == <<running, budget>>
passVars  == <<pc, listed, todo, live, cur, hit>>
histVars  == <<shown, intent, nodeIntent>>
vars      == <<dbVars, worldVars, passVars, histVars>>

GuestsOf(i)  == {g \in guests : g.inst = i}
RulesOn(gs)  == {r \in rules : \E g \in gs : g.id = r.guest}
Idle(d)      == \A i \in InstanceIds : pc[<<d, i>>] = "idle"

\* Mutants: the id of a row deleted before comes back (INTEGER PRIMARY KEY
\* without AUTOINCREMENT), or the sequence starts too low.
ReusedGuestId == IF guests = {} THEN 1
                    ELSE 1 + CHOOSE n \in {g.id : g \in guests} :
                               \A g \in guests : g.id <= n
NegativeGuestId == nextGuest - 2

\* AUTOINCREMENT and BIGSERIAL: an id is never handed out twice, not even
\* after the row it named is deleted.
FreshGuestId    == nextGuest
FreshInstanceId == nextInstance

TypeOK ==
  /\ instances \subseteq InstanceIds
  /\ hostOf \in [InstanceIds -> Hosts \union {NoHost}]
  /\ nextInstance \in Nat
  /\ guests \subseteq Guest
  /\ nextGuest \in Nat
  /\ rules \subseteq GuestRule
  /\ nodeRules \subseteq NodeRule
  /\ running \in [Hosts -> SUBSET Vmids]
  /\ budget \in Nat
  /\ pc \in [Passes -> {"idle", "lxc", "qemu", "store", "write"}]
  /\ listed \in [Passes -> SUBSET Vmids]
  /\ todo \in [Passes -> SUBSET Vmids]
  /\ live \in [Passes -> SUBSET Vmids]
  /\ cur \in [Passes -> Vmids]
  /\ hit \in [Passes -> Nat]
  /\ shown \subseteq Guest
  /\ intent \subseteq [subject : Subjects, row : Guest]
  /\ nodeIntent \subseteq [subject : Subjects, inst : InstanceIds, host : Hosts]

\* serve has just opened a database that already knows some instances.
Init ==
  /\ instances = 1..Len(Registered)
  /\ hostOf = [i \in InstanceIds |->
                IF i <= Len(Registered) THEN Registered[i] ELSE NoHost]
  /\ nextInstance = Len(Registered) + 1
  /\ guests = {}
  /\ nextGuest = 1
  /\ rules = {}
  /\ nodeRules = {}
  /\ running \in [Hosts -> SUBSET Vmids]
  /\ budget = MaxDisturbances
  /\ pc = [p \in Passes |-> "idle"]
  /\ listed = [p \in Passes |-> {}]
  /\ todo = [p \in Passes |-> {}]
  /\ live = [p \in Passes |-> {}]
  /\ cur = [p \in Passes |-> CHOOSE v \in Vmids : TRUE]
  /\ hit = [p \in Passes |-> 0]
  /\ shown = {}
  /\ intent = {}
  /\ nodeIntent = {}


-----------------------------------------------------------------------------
(* Discovery: RunOnce, RunDiscovery and "discover", then discoverInstance    *)
(* and StoreGuests for each instance.                                        *)

\* A pass that is over leaves nothing behind in its goroutine.
PassEnds(p) ==
  /\ pc' = [pc EXCEPT ![p] = "idle"]
  /\ listed' = [listed EXCEPT ![p] = {}]
  /\ todo' = [todo EXCEPT ![p] = {}]
  /\ live' = [live EXCEPT ![p] = {}]
  /\ hit' = [hit EXCEPT ![p] = 0]
  /\ cur' = [cur EXCEPT ![p] = CHOOSE v \in Vmids : TRUE]

\* ListProxmoxInstances, then a goroutine per instance (with none the round is
\* over at once); the next round waits for all of them (wg.Wait).
StartRound(d) ==
  /\ Idle(d)
  /\ pc' = [p \in Passes |->
              IF p[1] = d /\ p[2] \in instances THEN "lxc" ELSE pc[p]]
  /\ UNCHANGED <<dbVars, worldVars, listed, todo, live, cur, hit, histVars>>

\* RunDiscovery narrowed to one instance by ?instance=.
StartOne(d, i) ==
  /\ d # Loop
  /\ Idle(d)
  /\ i \in instances
  /\ pc' = [pc EXCEPT ![<<d, i>>] = "lxc"]
  /\ UNCHANGED <<dbVars, worldVars, listed, todo, live, cur, hit, histVars>>

\* DiscoverGuests asks for the containers and for the VMs in two requests:
\* the host may change between them. Only running guests are kept.
ListContainers(p) ==
  /\ pc[p] = "lxc"
  /\ pc' = [pc EXCEPT ![p] = "qemu"]
  /\ listed' = [listed EXCEPT ![p] = running[hostOf[p[2]]] \intersect Containers]
  /\ UNCHANGED <<dbVars, worldVars, todo, live, cur, hit, histVars>>

ListVMs(p) ==
  LET found == listed[p] \union (running[hostOf[p[2]]] \ Containers) IN
  /\ pc[p] = "qemu"
  /\ pc' = [pc EXCEPT ![p] = "store"]
  /\ listed' = [listed EXCEPT ![p] = found]
  /\ todo' = [todo EXCEPT ![p] = found]
  /\ UNCHANGED <<dbVars, worldVars, live, cur, hit, histVars>>

\* UpsertGuest, first statement: the row of this vmid, if there is one. No
\* ORDER BY: with two such rows, either may come back.
SelectGuest(p, v) ==
  LET rows == {g \in GuestsOf(p[2]) : g.vmid = v} IN
  /\ pc[p] = "store"
  /\ v \in todo[p]
  /\ IF rows = {} THEN hit' = [hit EXCEPT ![p] = 0]
                  ELSE \E g \in rows : hit' = [hit EXCEPT ![p] = g.id]
  /\ cur' = [cur EXCEPT ![p] = v]
  /\ pc' = [pc EXCEPT ![p] = "write"]
  /\ UNCHANGED <<dbVars, worldVars, listed, todo, live, histVars>>

\* The loop of StoreGuests moves on; the guest counts as live whether it
\* could be written or not.
NextGuestOf(p) ==
  /\ pc' = [pc EXCEPT ![p] = "store"]
  /\ todo' = [todo EXCEPT ![p] = @ \ {cur[p]}]
  /\ live' = [live EXCEPT ![p] = @ \union {cur[p]}]
  /\ hit' = [hit EXCEPT ![p] = 0]
  /\ cur' = [cur EXCEPT ![p] = CHOOSE v \in Vmids : TRUE]
  /\ UNCHANGED listed

\* UpsertGuest, second statement, nothing found: INSERT.
InsertGuest(p) ==
  LET row == [id |-> FreshGuestId, inst |-> p[2], vmid |-> cur[p]] IN
  /\ pc[p] = "write"
  /\ hit[p] = 0
  /\ nextGuest <= MaxGuestRows
  /\ guests' = guests \union {row}
  /\ nextGuest' = nextGuest + 1
  /\ shown' = shown \union {row}
  /\ NextGuestOf(p)
  /\ UNCHANGED <<instances, hostOf, nextInstance, rules, nodeRules, worldVars,
                 intent, nodeIntent>>

\* UpsertGuest, second statement, a row found: UPDATE by id. It changes type,
\* name and status, which nothing here reads, and says nothing when the row
\* has gone meanwhile.
UpdateGuest(p) ==
  /\ pc[p] = "write"
  /\ hit[p] # 0
  /\ NextGuestOf(p)
  /\ UNCHANGED <<dbVars, worldVars, histVars>>

\* Mutant: a guest that could not be written does not count as live.
UpsertFailsDead(p) ==
  /\ budget > 0
  /\ budget' = budget - 1
  /\ pc[p] = "write"
  /\ pc' = [pc EXCEPT ![p] = "store"]
  /\ todo' = [todo EXCEPT ![p] = @ \ {cur[p]}]
  /\ UNCHANGED <<dbVars, running, listed, live, cur, hit, histVars>>

\* Either statement of UpsertGuest fails: StoreGuests keeps going.
UpsertFails(p) ==
  /\ budget > 0
  /\ budget' = budget - 1
  /\ pc[p] = "write"
  /\ NextGuestOf(p)
  /\ UNCHANGED <<dbVars, running, histVars>>

\* Mutants of the prune: it forgets the rules, drops those of every guest of
\* the instance, or does not happen (discovery only ever appends).
PruneKeepsRules(p) ==
  /\ pc[p] = "store"
  /\ todo[p] = {}
  /\ guests' = guests \ {g \in GuestsOf(p[2]) : g.vmid \notin live[p]}
  /\ PassEnds(p)
  /\ UNCHANGED <<instances, hostOf, nextInstance, rules, nextGuest, nodeRules, worldVars, histVars>>
PruneDropsAllRules(p) ==
  /\ pc[p] = "store"
  /\ todo[p] = {}
  /\ guests' = guests \ {g \in GuestsOf(p[2]) : g.vmid \notin live[p]}
  /\ rules' = rules \ RulesOn(GuestsOf(p[2]))
  /\ PassEnds(p)
  /\ UNCHANGED <<instances, hostOf, nextInstance, nextGuest, nodeRules, worldVars, histVars>>
NoPrune(p) ==
  /\ pc[p] = "store"
  /\ todo[p] = {}
  /\ PassEnds(p)
  /\ UNCHANGED <<dbVars, worldVars, histVars>>

\* RemoveGuestsNotIn: one transaction deletes the rows of the instance whose
\* vmid is not live, and the rules on them.
Prune(p) ==
  LET stale == {g \in GuestsOf(p[2]) : g.vmid \notin live[p]} IN
  /\ pc[p] = "store"
  /\ todo[p] = {}
  /\ guests' = guests \ stale
  /\ rules' = rules \ RulesOn(stale)
  /\ PassEnds(p)
  /\ UNCHANGED <<instances, hostOf, nextInstance, nextGuest, nodeRules, worldVars, histVars>>

\* DiscoverGuests fails (it is all or nothing), the context of the request
\* is over before the next guest, or the transaction of the prune fails:
\* the pass returns without pruning.
PassFails(p) ==
  /\ budget > 0
  /\ budget' = budget - 1
  /\ pc[p] \in {"lxc", "qemu", "store"}
  /\ PassEnds(p)
  /\ UNCHANGED <<dbVars, running, histVars>>

\* What a pass does on its own, failures apart.
PassStep(p) ==
  \/ ListContainers(p)
  \/ ListVMs(p)
  \/ \E v \in Vmids : SelectGuest(p, v)
  \/ InsertGuest(p)
  \/ UpdateGuest(p)
  \/ Prune(p)

-----------------------------------------------------------------------------
(* The administrator, through the REST handlers.                             *)

\* The row, then the new instance's guests right away. Nothing keeps two
\* instances from having the same host: migration 00007 rebuilt the SQLite
\* table without the UNIQUE of api_url, which only Postgres still has.
AddInstance(d, h) ==
  LET i == FreshInstanceId IN
  /\ d # Loop
  /\ Idle(d)
  /\ nextInstance <= MaxInstances
  /\ instances' = instances \union {i}
  /\ hostOf' = [hostOf EXCEPT ![i] = h]
  /\ nextInstance' = nextInstance + 1
  /\ pc' = [pc EXCEPT ![<<d, i>>] = "lxc"]
  /\ UNCHANGED <<guests, nextGuest, rules, nodeRules, worldVars,
                 listed, todo, live, cur, hit, histVars>>

\* One transaction: rules of its guests, guests, rules on the node, the row.
RemoveInstance(i) ==
  /\ i \in instances
  /\ instances' = instances \ {i}
  /\ guests' = guests \ GuestsOf(i)
  /\ rules' = rules \ RulesOn(GuestsOf(i))
  /\ nodeRules' = {r \in nodeRules : r.inst # i}
  /\ UNCHANGED <<hostOf, nextInstance, nextGuest, worldVars, passVars, histVars>>

\* The rows come from a listing the administrator was shown at some time: the
\* handler checks neither that they are still there nor that s is.
Grant(s, rows) ==
  /\ rules' = rules \union {[subject |-> s, guest |-> g.id] : g \in rows}
  /\ intent' = intent \union {[subject |-> s, row |-> g] : g \in rows}
  /\ Cardinality(intent') + Cardinality(nodeIntent) <= MaxGrants
  /\ UNCHANGED <<instances, hostOf, nextInstance, guests, nextGuest, nodeRules,
                 worldVars, passVars, shown, nodeIntent>>

\* RevokeAccess deletes the rules of its list one statement at a time.
Revoke(r) ==
  /\ r \in rules
  /\ rules' = rules \ {r}
  /\ UNCHANGED <<instances, hostOf, nextInstance, guests, nextGuest, nodeRules,
                 worldVars, passVars, histVars>>

\* As for guests, i may have gone since the administrator was shown it.
GrantNode(s, i) ==
  /\ hostOf[i] # NoHost
  /\ nodeRules' = nodeRules \union {[subject |-> s, inst |-> i]}
  /\ nodeIntent' = nodeIntent \union {[subject |-> s, inst |-> i, host |-> hostOf[i]]}
  /\ Cardinality(intent) + Cardinality(nodeIntent') <= MaxGrants
  /\ UNCHANGED <<instances, hostOf, nextInstance, guests, nextGuest, rules,
                 worldVars, passVars, shown, intent>>

RevokeNode(r) ==
  /\ r \in nodeRules
  /\ nodeRules' = nodeRules \ {r}
  /\ UNCHANGED <<instances, hostOf, nextInstance, guests, nextGuest, rules,
                 worldVars, passVars, histVars>>

-----------------------------------------------------------------------------
(* The world.                                                                *)

\* A guest starts or stops on its host.
HostChanges(h, v) ==
  /\ budget > 0
  /\ budget' = budget - 1
  /\ running' = [running EXCEPT ![h] = IF v \in @ THEN @ \ {v} ELSE @ \union {v}]
  /\ UNCHANGED <<dbVars, passVars, histVars>>

\* serve dies and is started again: every pass is forgotten where it was, the
\* statements already committed stay.
Crash ==
  /\ budget > 0
  /\ budget' = budget - 1
  /\ \E p \in Passes : pc[p] # "idle"
  /\ pc' = [p \in Passes |-> "idle"]
  /\ listed' = [p \in Passes |-> {}]
  /\ todo' = [p \in Passes |-> {}]
  /\ live' = [p \in Passes |-> {}]
  /\ cur' = [p \in Passes |-> CHOOSE v \in Vmids : TRUE]
  /\ hit' = [p \in Passes |-> 0]
  /\ UNCHANGED <<dbVars, running, histVars>>

Discovery ==
  \/ \E d \in Drivers : StartRound(d) \/ \E i \in InstanceIds : StartOne(d, i)
  \/ \E p \in Passes : PassStep(p) \/ UpsertFails(p) \/ PassFails(p)

Administration ==
  \/ \E d \in Drivers, h \in Hosts : AddInstance(d, h)
  \/ \E i \in InstanceIds : RemoveInstance(i)
  \/ \E s \in Subjects, rows \in SUBSET shown : Grant(s, rows)
  \/ \E r \in rules : Revoke(r)
  \/ \E s \in Subjects, i \in InstanceIds : GrantNode(s, i)
  \/ \E r \in nodeRules : RevokeNode(r)

World ==
  \/ \E h \in Hosts, v \in Vmids : HostChanges(h, v)
  \/ Crash

Next == Discovery \/ Administration \/ World

Spec == Init /\ [][Next]_vars

\* The loop ticks for ever and a pass, once started, runs: each of its
\* requests has a timeout and each of its statements a busy_timeout.
Fairness ==
  /\ WF_vars(StartRound(Loop))
  /\ \A p \in Passes : WF_vars(PassStep(p))

FairSpec == Spec /\ Fairness

-----------------------------------------------------------------------------
(* Properties.                                                               *)

\* A rule that names a row of guests, whenever that row was inserted, was
\* granted by an administrator who meant the very guest (instance and vmid)
\* the row holds; likewise a node rule and the host. This is what keeps the
\* rules that outlive their target (granted while it was being pruned or
\* removed) from granting anything else later.
GrantsReachOnlyTheirTarget ==
  /\ \A r \in rules : \A g \in guests :
       g.id = r.guest => [subject |-> r.subject, row |-> g] \in intent
  /\ \A r \in nodeRules :
       r.inst \in instances =>
         [subject |-> r.subject, inst |-> r.inst, host |-> hostOf[r.inst]]
           \in nodeIntent

\* Whatever deletes a guest or an instance, a pass or an administrator,
\* deletes in the same step every rule that names it.
NoRuleOutlivesItsTarget ==
  [][ /\ \A g \in guests \ guests' : \A r \in rules' : r.guest # g.id
      /\ \A i \in instances \ instances' :
           /\ \A r \in nodeRules' : r.inst # i
           /\ \A g \in guests' : g.inst # i ]_vars

\* A rule disappears with the row it names or because it is revoked: no
\* discovery pass costs a guest it keeps any of its grants.
GrantsSurviveDiscovery ==
  [][ (\E r \in rules \ rules', g \in guests' : g.id = r.guest) => ~Discovery ]_vars

\* A pass deletes only guests of its own instance that its own listing did not
\* report running; in particular not one it failed to write.
PrunesOnlyUnlisted ==
  [][ \A g \in guests \ guests' :
        \/ g.inst \notin instances'
        \/ \E p \in Passes : /\ p[2] = g.inst
                             /\ pc[p] = "store" /\ pc'[p] = "idle"
                             /\ g.vmid \notin listed[p] ]_vars

\* One row per guest of a host: what UpsertGuest's SELECT-then-INSERT is for.
OneRowPerGuest ==
  \A g1, g2 \in guests : g1.inst = g2.inst /\ g1.vmid = g2.vmid => g1 = g2

\* Once the hosts are quiet the stored guests of every registered instance
\* become, and stay, exactly the guests running on its host, through crashes,
\* failed writes, overlapping passes and administrators at work.
Converges ==
  \A i \in InstanceIds :
    <>[](i \in instances => {g.vmid : g \in GuestsOf(i)} = running[hostOf[i]])
=============================================================================
