----------------------------- MODULE Directory ------------------------------
(***************************************************************************)
(* Accounts: their ids, who they are, and what is claimed of both. How     *)
(* they come and go is Accounts.                                           *)
(*                                                                         *)
(* Clients and groups are rows of the database; their uids and gids are    *)
(* the ids of the rows above a base. The administrator, the aliases and    *)
(* two groups have ids of their own. A layout says which, comes from the   *)
(* environment and is refused at startup unless it keeps them apart, out   *)
(* of the system's range and under the highest usable id.                  *)
(***************************************************************************)
EXTENDS Naturals

CONSTANTS
  Typed,            (* login names as somebody types them                    *)
  Fold,             (* the name each of them is stored and compared as       *)
  ValidLoginName,   (* those that survive the way to the directory           *)
  ClientNames,      (* what administrators call clients                      *)
  Admin,            (* the reserved name, and who it stands for              *)
  Alias,            (* whoever logs in by a name nobody has                  *)
  Nobody,
  Layouts,          (* what the environment may ask for                      *)
  FirstNonSystemID,
  MinRoom,          (* how many clients and groups a layout must have room for *)
  MaxRows           (* bound: client rows ever added                         *)

Fields ==
  {"AdminUID", "AliasUID", "AdminGroupGID", "SharedGroupGID", "UIDBase", "GIDBase", "MaxID"}

ASSUME DirectoryAssumption ==
  /\ Fold \in [Typed -> {Fold[t] : t \in Typed}]
  /\ ValidLoginName \subseteq Typed
  /\ Layouts \subseteq [Fields -> Nat]
  /\ MaxRows \in Nat /\ MinRoom \in Nat /\ FirstNonSystemID \in Nat
  /\ Admin \notin Nat /\ Alias \notin Nat /\ Nobody \notin Nat
  /\ Admin # Alias /\ Admin # Nobody /\ Alias # Nobody

\* Row ids as the database hands them out.
Ids == 1..MaxRows

\* A client's uid and a group's gid.
UIDFor(l, id) == id + l["UIDBase"]
GIDFor(l, id) == id + l["GIDBase"]

InRange(l, id) == id <= l["MaxID"]

\* Mutant: nothing keeps the aliases' uid out of the clients'.
ValidateForgetsAliases(l) ==
  /\ l["MaxID"] # 0
  /\ \A f \in Fields \ {"MaxID"} : InRange(l, l[f]) /\ l[f] >= FirstNonSystemID
  /\ l["AdminUID"] < l["UIDBase"]
  /\ l["AliasUID"] # l["AdminUID"]
  /\ l["AdminGroupGID"] < l["GIDBase"]
  /\ l["SharedGroupGID"] < l["GIDBase"]
  /\ l["AdminGroupGID"] # l["SharedGroupGID"]
  /\ l["UIDBase"] + MinRoom <= l["MaxID"]
  /\ l["GIDBase"] + MinRoom <= l["MaxID"]

\* Whether a layout can be served at all.
Validate(l) ==
  /\ l["MaxID"] # 0
  /\ \A f \in Fields \ {"MaxID"} : InRange(l, l[f]) /\ l[f] >= FirstNonSystemID
  /\ l["AdminUID"] < l["UIDBase"]
  /\ l["AliasUID"] < l["UIDBase"]
  /\ l["AliasUID"] # l["AdminUID"]
  /\ l["AdminGroupGID"] < l["GIDBase"]
  /\ l["SharedGroupGID"] < l["GIDBase"]
  /\ l["AdminGroupGID"] # l["SharedGroupGID"]
  /\ l["UIDBase"] + MinRoom <= l["MaxID"]
  /\ l["GIDBase"] + MinRoom <= l["MaxID"]

VARIABLES
  layout,      (* what this serve was started with                           *)
  configured,  (* whether the key is its admin key (PROXPASS_ADMIN_KEY)      *)
  clients,     (* rows: name, and whether the key is among the client's      *)
  lastID,      (* of the last row added                                      *)
  adminKey,    (* whether the key is in admin_keys                           *)
  login,       (* the login under way                                        *)
  seen,        (* history: who held the key at each moment of the listing,   *)
               (* up to the second edit                                      *)
  edits,       (* history: edits since the listing began; 2 is more          *)
  running      (* open sessions                                              *)

accountVars == <<layout, configured, clients, lastID, adminKey, login, seen, edits, running>>

(***************************************************************************)
(* The directory. An answer is a set of at most one entry.                 *)
(***************************************************************************)
adminUser == [account |-> Admin, uid |-> layout["AdminUID"], gid |-> layout["AdminGroupGID"]]
aliasUser == [account |-> Alias, uid |-> layout["AliasUID"], gid |-> layout["SharedGroupGID"]]
UserFor(id) ==
  [account |-> id, uid |-> UIDFor(layout, id), gid |-> layout["SharedGroupGID"]]

\* A client whose uid nothing can adopt is an error, not an unknown name.
UserByName(t) ==
  LET named == {id \in DOMAIN clients : clients[id].name = Fold[t]}
  IN IF Fold[t] = Admin THEN {adminUser}
     ELSE IF named # {} THEN {u \in {UserFor(id) : id \in named} : InRange(layout, u.uid)}
     ELSE IF t \in ValidLoginName THEN {aliasUser} ELSE {}

UserByUID(uid) ==
  IF uid = layout["AliasUID"] THEN {aliasUser}
  ELSE IF uid = layout["AdminUID"] THEN {adminUser}
  ELSE IF uid < layout["UIDBase"] THEN {}
  ELSE {u \in {UserFor(id) : id \in DOMAIN clients} : u.uid = uid}

Users ==
  {adminUser} \union {u \in {UserFor(id) : id \in DOMAIN clients} : InRange(layout, u.uid)}

\* The administrators' group, everybody else's, and the groups of the database,
\* whose members AccessCheck has.
AllGroups ==
  {[gid |-> layout["AdminGroupGID"], members |-> {Admin}],
   [gid |-> layout["SharedGroupGID"], members |-> DOMAIN clients]}
  \union {[gid |-> GIDFor(layout, id), members |-> {}] : id \in Ids}

GroupByGID(gid) == {g \in AllGroups : g.gid = gid}

(***************************************************************************)
(* Who is who                                                              *)
(***************************************************************************)
Holders == {id \in DOMAIN clients : clients[id].holds} \union (IF adminKey THEN {Admin} ELSE {})

\* Whom the key identifies, given who holds it. Nothing orders the rows of
\* clients, so of two clients it may be either.
Owners(held) ==
  IF Admin \in held THEN {Admin} ELSE IF held = {} THEN {Nobody} ELSE held

(***************************************************************************)
(* Properties                                                              *)
(***************************************************************************)
\* What runs under a uid is one account's, now and whatever rows come and go:
\* sessions share a uid when they are of the same account (or all of names
\* nobody has), the uid is one the system can adopt and has no account of its
\* own for, its gid is of one group, which is the administrators' for them alone
\* and has the client while there is one, and who asks whose a uid is hears its
\* account, or nothing once that is removed. The list of users and the lookups
\* agree.
UidsKeepApart ==
  /\ \A s \in running :
       /\ \A r \in running : s.uid = r.uid <=> s.account = r.account
       /\ FirstNonSystemID <= s.uid /\ InRange(layout, s.uid)
       /\ \E g \in AllGroups :
            /\ GroupByGID(s.gid) = {g}
            /\ Admin \in g.members <=> s.account = Admin
            /\ s.account \in DOMAIN clients => s.account \in g.members
       /\ \A u \in UserByUID(s.uid) : u = s
  /\ \A u \in Users : UserByUID(u.uid) = {u}

\* With one edit at most while the keys are listed, a login becomes whom its key
\* identified at some moment of the listing, whatever name was typed: an
\* administrator if it was one's, else a client who had it, and nobody only if
\* nobody had it.
KeyIsIdentity ==
  login.at = "done" /\ edits < 2 => \E held \in seen : login.who \in Owners(held)
=============================================================================
