---------------------------- MODULE AccessCheck ----------------------------
(***************************************************************************)
(* May this client reach that guest, or that node?                         *)
(*                                                                         *)
(* HasAccess and HasInstanceAccess answer with up to five kinds of SQL     *)
(* statement and no transaction: the client's own rule, its memberships as *)
(* recorded on the client's side, those recorded on the groups' side, the  *)
(* rule of each group in turn, the default policy. Administrators edit     *)
(* the same tables in between. The model follows one client's check, one   *)
(* step per statement, against every edit the REST handlers and discovery  *)
(* make.                                                                   *)
(*                                                                         *)
(* The administrator short-circuit of mayReach and the endpoints' 404-as-  *)
(* 403 are outside: they read nothing that can change under them.          *)
(***************************************************************************)
EXTENDS Naturals

CONSTANTS
  Client,    (* the client asking                                            *)
  Groups,    (* ids of groups                                                *)
  Guests,    (* guest rows:  targets of access_rules                         *)
  Nodes,     (* instance rows: targets of instance_access_rules              *)
  NoTarget,  (* nothing asked                                                *)
  Policies,  (* the default policies an administrator may save               *)
  MaxEdits   (* bound: edits committed while one check runs                  *)

Targets  == Guests \union Nodes
Subjects == {Client} \union Groups
Rule     == [subject : Subjects, target : Targets]
Policy   == [client : BOOLEAN, groups : SUBSET Groups, node : BOOLEAN]

ASSUME AccessAssumption ==
  /\ Client \notin Groups
  /\ Guests \intersect Nodes = {}
  /\ NoTarget \notin Targets
  /\ Policies \subseteq Policy
  /\ MaxEdits \in Nat

\* What a check reads.
Tables == [mine : SUBSET Groups, theirs : SUBSET Groups,
           rules : SUBSET Rule, policy : Policy]

VARIABLES
  (* the database *)
  clientRow,  (* whether clients still has the client's row                   *)
  groupRows,  (* groups with a row                                            *)
  gone,       (* groups removed: their ids are not handed out again           *)
  tables,     (* mine: clients.group_ids; theirs: the groups whose client_ids *)
              (* name the client; rules: both rule tables; policy             *)
  (* the check *)
  pc, target,
  memb,       (* clientGroupIDs as far as it got                              *)
  todo,       (* groups whose rule is still to be looked up                   *)
  answer,
  (* history of the check that runs, read by the properties only *)
  start,      (* the tables when it began                                     *)
  edits,      (* edits committed since                                        *)
  grew,       (* some edit gave something                                     *)
  shrank,     (* some edit took something                                     *)
  wasAllowed, (* it would have been right to allow, at some instant           *)
  wasDenied   (* it would have been right to deny, at some instant            *)

rowVars   == <<clientRow, groupRows, gone>>
checkVars == <<pc, target, memb, todo, answer>>
histVars  == <<start, edits, grew, shrank, wasAllowed, wasDenied>>
vars      == <<rowVars, tables, checkVars, histVars>>

Has(d, s, t) == [subject |-> s, target |-> t] \in d.rules

\* The answer owed at one instant: a rule on the client, a rule on one of its
\* groups whichever side the membership was entered from, or the default
\* policy, which covers nodes only when its flag says so.
Allowed(d, t) ==
  LET member == d.mine \union d.theirs IN
  \/ Has(d, Client, t)
  \/ \E g \in member : Has(d, g, t)
  \/ /\ t \in Guests \/ d.policy.node
     /\ d.policy.client \/ d.policy.groups \intersect member # {}

\* d gives nothing that e does not.
Within(d, e) ==
  /\ d.mine \subseteq e.mine
  /\ d.theirs \subseteq e.theirs
  /\ d.rules \subseteq e.rules
  /\ d.policy.client => e.policy.client
  /\ d.policy.groups \subseteq e.policy.groups
  /\ d.policy.node => e.policy.node

TypeOK ==
  /\ clientRow \in BOOLEAN
  /\ groupRows \subseteq Groups
  /\ gone \subseteq Groups \ groupRows
  /\ tables \in Tables
  /\ pc \in {"idle", "client", "mine", "theirs", "group", "done"}
  /\ target \in Targets \union {NoTarget}
  /\ pc # "idle" <=> target # NoTarget
  /\ memb \subseteq Groups
  /\ todo \subseteq Groups
  /\ answer \in BOOLEAN
  /\ start \in Tables
  /\ edits \in 0..MaxEdits
  /\ grew \in BOOLEAN
  /\ shrank \in BOOLEAN
  /\ wasAllowed \in BOOLEAN
  /\ wasDenied \in BOOLEAN

\* Any configuration an administrator can leave behind. A rule, a group_ids
\* entry or a policy entry may name a group that has no row: no handler checks.
Init ==
  /\ clientRow = TRUE
  /\ groupRows \in SUBSET Groups
  /\ gone = {}
  /\ tables \in [mine : SUBSET Groups, theirs : SUBSET groupRows,
                 rules : SUBSET Rule, policy : Policies]
  /\ pc = "idle"
  /\ target = NoTarget
  /\ memb = {}
  /\ todo = {}
  /\ answer = FALSE
  /\ start = tables
  /\ edits = 0
  /\ grew = FALSE
  /\ shrank = FALSE
  /\ wasAllowed = FALSE
  /\ wasDenied = FALSE

-----------------------------------------------------------------------------
(* The check.                                                                *)

Begin(t) ==
  /\ pc = "idle"
  /\ pc' = "client"
  /\ target' = t
  /\ memb' = {} /\ todo' = {} /\ answer' = FALSE
  /\ start' = tables
  /\ edits' = 0 /\ grew' = FALSE /\ shrank' = FALSE
  /\ wasAllowed' = Allowed(tables, t)
  /\ wasDenied' = ~Allowed(tables, t)
  /\ UNCHANGED <<rowVars, tables>>

Answers(a) ==
  /\ pc' = "done"
  /\ answer' = a
  /\ UNCHANGED <<rowVars, tables, target, histVars>>

\* 1. The direct rule.
ClientRule ==
  /\ pc = "client"
  /\ \/ Has(tables, Client, target) /\ Answers(TRUE)
     \/ /\ ~Has(tables, Client, target)
        /\ pc' = "mine"
        /\ UNCHANGED <<rowVars, tables, target, answer, histVars>>
  /\ UNCHANGED <<memb, todo>>

\* 2. clientGroupIDs: the client's row (a missing one is no error), then one
\* scan of the groups.
ReadMine ==
  /\ pc = "mine"
  /\ pc' = "theirs"
  /\ memb' = tables.mine
  /\ UNCHANGED <<rowVars, tables, target, todo, answer, histVars>>

\* Mutant: the scan is not there, as it once was not.
ReadNoTheirs ==
  /\ pc = "theirs"
  /\ pc' = "group"
  /\ todo' = memb
  /\ UNCHANGED <<rowVars, tables, target, memb, answer, histVars>>

ReadTheirs ==
  /\ pc = "theirs"
  /\ pc' = "group"
  /\ memb' = memb \union tables.theirs
  /\ todo' = memb'
  /\ UNCHANGED <<rowVars, tables, target, answer, histVars>>

\* The rule of each group, in the order of a Go map: any.
GroupRule(g) ==
  /\ pc = "group"
  /\ g \in todo
  /\ \/ Has(tables, g, target) /\ Answers(TRUE) /\ UNCHANGED todo
     \/ /\ ~Has(tables, g, target)
        /\ todo' = todo \ {g}
        /\ UNCHANGED <<rowVars, tables, pc, target, answer, histVars>>
  /\ UNCHANGED memb

\* Mutants of the last tier: it looks the memberships up again, or takes a
\* node for a guest.
PolicyRereads ==
  LET p == tables.policy
      now == tables.mine \union tables.theirs IN
  /\ pc = "group" /\ todo = {}
  /\ Answers((target \in Guests \/ p.node) /\ (p.client \/ p.groups \intersect now # {}))
  /\ UNCHANGED <<memb, todo>>
PolicyReachesNodes ==
  LET p == tables.policy IN
  /\ pc = "group" /\ todo = {}
  /\ Answers(p.client \/ p.groups \intersect memb # {})
  /\ UNCHANGED <<memb, todo>>

\* 3. The default policy, read once, against the memberships read before.
DefaultPolicy ==
  LET p == tables.policy IN
  /\ pc = "group" /\ todo = {}
  /\ Answers((target \in Guests \/ p.node) /\ (p.client \/ p.groups \intersect memb # {}))
  /\ UNCHANGED <<memb, todo>>

\* The answer is delivered, or a statement failed and there is none: the
\* handler reports an error. Either way nothing of the check remains.
Return ==
  /\ pc # "idle"
  /\ pc' = "idle"
  /\ target' = NoTarget
  /\ memb' = {} /\ todo' = {} /\ answer' = FALSE
  /\ start' = tables
  /\ edits' = 0 /\ grew' = FALSE /\ shrank' = FALSE
  /\ wasAllowed' = FALSE /\ wasDenied' = FALSE
  /\ UNCHANGED <<rowVars, tables>>

-----------------------------------------------------------------------------
(* The edits, each one statement or one transaction.                         *)

\* What an edit does to the history of the check it falls into. Between checks
\* edits are free; those after the last statement of one fall into none.
Commits ==
  /\ \/ /\ pc = "idle"
        /\ start' = tables'
        /\ UNCHANGED <<edits, grew, shrank, wasAllowed, wasDenied>>
     \/ /\ pc \notin {"idle", "done"}
        /\ edits < MaxEdits
        /\ edits' = edits + 1
        /\ grew' = (grew \/ ~Within(tables', tables))
        /\ shrank' = (shrank \/ ~Within(tables, tables'))
        /\ wasAllowed' = (wasAllowed \/ Allowed(tables', target))
        /\ wasDenied' = (wasDenied \/ ~Allowed(tables', target))
        /\ UNCHANGED start
  /\ UNCHANGED checkVars

\* GrantAccess and GrantInstanceAccess: one transaction per subject and list.
Grant(s, ts) ==
  /\ tables' = [tables EXCEPT !.rules =
                  @ \union {[subject |-> s, target |-> t] : t \in ts}]
  /\ Commits
  /\ UNCHANGED rowVars

\* RevokeAccess and RevokeInstanceAccess: one statement per target.
Revoke(s, t) ==
  /\ tables' = [tables EXCEPT !.rules = @ \ {[subject |-> s, target |-> t]}]
  /\ Commits
  /\ UNCHANGED rowVars

\* RemoveGuestsNotIn and RemoveProxmoxInstance: one transaction takes every rule of
\* guests that are gone, and of their instance. Which guests are whose is Inventory's.
RemoveTargets(ts) ==
  /\ tables' = [tables EXCEPT !.rules = {r \in @ : r.target \notin ts}]
  /\ Commits
  /\ UNCHANGED rowVars

\* UpdateClient replaces the whole row, group_ids included.
UpdateClient(gs) ==
  /\ clientRow
  /\ tables' = [tables EXCEPT !.mine = gs]
  /\ Commits
  /\ UNCHANGED rowVars

\* RemoveClient deletes the row and nothing else: rules, the groups' lists
\* and the policy keep naming the client.
RemoveClient ==
  /\ clientRow
  /\ clientRow' = FALSE
  /\ tables' = [tables EXCEPT !.mine = {}]
  /\ Commits
  /\ UNCHANGED <<groupRows, gone>>

\* Mutant: the id of a removed group is handed out again.
AddGroupReuses(g, named) ==
  /\ g \notin groupRows
  /\ groupRows' = groupRows \union {g}
  /\ tables' = [tables EXCEPT !.theirs = IF named THEN @ \union {g} ELSE @]
  /\ Commits
  /\ UNCHANGED <<clientRow, gone>>

\* AddGroup and UpdateGroup, as far as this client is concerned: the row's
\* client_ids name it or not.
AddGroup(g, named) ==
  /\ g \notin groupRows \union gone
  /\ groupRows' = groupRows \union {g}
  /\ tables' = [tables EXCEPT !.theirs = IF named THEN @ \union {g} ELSE @]
  /\ Commits
  /\ UNCHANGED <<clientRow, gone>>

UpdateGroup(g, named) ==
  /\ g \in groupRows
  /\ tables' = [tables EXCEPT !.theirs = IF named THEN @ \union {g} ELSE @ \ {g}]
  /\ Commits
  /\ UNCHANGED rowVars

\* RemoveGroup deletes the row and nothing else.
RemoveGroup(g) ==
  /\ g \in groupRows
  /\ groupRows' = groupRows \ {g}
  /\ gone' = gone \union {g}
  /\ tables' = [tables EXCEPT !.theirs = @ \ {g}]
  /\ Commits
  /\ UNCHANGED clientRow

\* SetDefaultPolicy replaces the one row of default_policy.
SetDefaultPolicy(p) ==
  /\ tables' = [tables EXCEPT !.policy = p]
  /\ Commits
  /\ UNCHANGED rowVars

Check ==
  \/ \E t \in Targets : Begin(t)
  \/ ClientRule
  \/ ReadMine
  \/ ReadTheirs
  \/ \E g \in Groups : GroupRule(g)
  \/ DefaultPolicy
  \/ Return

Edit ==
  \/ \E s \in Subjects :
       \/ \E ts \in (SUBSET Guests) \union (SUBSET Nodes) : Grant(s, ts)
       \/ \E t \in Targets : Revoke(s, t)
  \/ \E ts \in SUBSET Targets : RemoveTargets(ts)
  \/ \E gs \in SUBSET Groups : UpdateClient(gs)
  \/ RemoveClient
  \/ \E g \in Groups :
       \/ \E named \in BOOLEAN : AddGroup(g, named) \/ UpdateGroup(g, named)
       \/ RemoveGroup(g)
  \/ \E p \in Policies : SetDefaultPolicy(p)

Next == Check \/ Edit

Spec == Init /\ [][Next]_vars

-----------------------------------------------------------------------------
(* Properties.                                                               *)

\* With no edit under it, a check answers exactly what is owed: the early
\* returns, the union of the two membership lists and the three tiers add up.
UndisturbedIsExact ==
  pc = "done" /\ edits = 0 => answer = Allowed(start, target)

\* One edit in the middle cannot produce an answer that was never right: what
\* two tiers share is read once, and every edit touches one thing they read.
OneEditLinearizable ==
  pc = "done" /\ edits <= 1 => IF answer THEN wasAllowed ELSE wasDenied

\* However many edits a check overlaps, revocations alone never make it allow
\* what was denied when it began, nor grants alone deny what was allowed.
MonotoneEdits ==
  pc = "done" =>
    /\ answer /\ ~grew => Allowed(start, target)
    /\ ~answer /\ ~shrank => ~Allowed(start, target)
=============================================================================
