--------------------------- MODULE Accounts_proofs ---------------------------
(***************************************************************************)
(* For every layout the validation lets through, and any clients, names    *)
(* and edits: uids keep accounts apart, and a key is its holder.           *)
(*                                                                         *)
(* Sessions outlive rows, so what is said of running sessions rests on ids *)
(* not being used again: an entry is of the administrator, of an alias, or *)
(* of an id handed out at some time, with the numbers that follow from it. *)
(***************************************************************************)
EXTENDS Accounts, TLAPS

Entries == [account : Ids \union {Admin, Alias, Nobody}, uid : Nat, gid : Nat]

LoginOK ==
  login \in [at : {"idle", "keys", "clients", "done"}, entry : Entries,
             admin : BOOLEAN, who : Ids \union {Admin, Nobody}]

\* What UserByName ever answers.
Genuine(s) ==
  \/ s = adminUser
  \/ s = aliasUser
  \/ \E id \in 1..lastID : s = UserFor(id) /\ InRange(layout, s.uid)

EntriesAreGenuine ==
  /\ \A s \in running : Genuine(s)
  /\ login.at # "idle" => Genuine(login.entry)

\* While the keys are listed, and at most one edit has happened: who holds the key
\* is among what was seen; an administrator's key that was listed was one then;
\* and where none was, the clients who hold the key were all its holders once.
ListingIsSeen ==
  edits < 2 =>
    /\ login.at \in {"keys", "clients"} => Holders \in seen
    /\ login.at = "clients" /\ edits = 0 => (login.admin <=> adminKey)
    /\ login.at = "clients" /\ login.admin => \E held \in seen : Admin \in held
    /\ login.at = "clients" /\ ~login.admin => Holders \ {Admin} \in seen

IInv == TypeOK /\ LoginOK /\ EntriesAreGenuine /\ ListingIsSeen /\ KeyIsIdentity

-----------------------------------------------------------------------------
\* The numbers.

LEMMA LayoutNumbers ==
  ASSUME TypeOK
  PROVE  /\ layout["AdminUID"] \in Nat /\ layout["AliasUID"] \in Nat
         /\ layout["AdminGroupGID"] \in Nat /\ layout["SharedGroupGID"] \in Nat
         /\ layout["UIDBase"] \in Nat /\ layout["GIDBase"] \in Nat
         /\ layout["MaxID"] \in Nat
         /\ layout["AdminUID"] < layout["UIDBase"] /\ layout["AliasUID"] < layout["UIDBase"]
         /\ layout["AdminUID"] # layout["AliasUID"]
         /\ layout["AdminGroupGID"] < layout["GIDBase"]
         /\ layout["SharedGroupGID"] < layout["GIDBase"]
         /\ layout["AdminGroupGID"] # layout["SharedGroupGID"]
         /\ layout["AdminUID"] >= FirstNonSystemID /\ layout["AliasUID"] >= FirstNonSystemID
         /\ layout["UIDBase"] >= FirstNonSystemID
         /\ InRange(layout, layout["AdminUID"]) /\ InRange(layout, layout["AliasUID"])
<1>1. layout \in [Fields -> Nat] /\ Validate(layout)
  BY DirectoryAssumption DEF TypeOK
<1>2. {"AdminUID", "AliasUID", "AdminGroupGID", "SharedGroupGID", "UIDBase", "GIDBase"}
        = Fields \ {"MaxID"} /\ "MaxID" \in Fields
  BY DEF Fields
<1> QED BY <1>1, <1>2 DEF Validate

LEMMA GenuineEntries ==
  ASSUME TypeOK, NEW s, Genuine(s)
  PROVE  s \in Entries
BY LayoutNumbers, DirectoryAssumption
DEF Genuine, Entries, adminUser, aliasUser, UserFor, UIDFor, Ids, TypeOK

\* An entry stays one while ids are handed out and the layout stays.
LEMMA GenuineStays ==
  ASSUME TypeOK, layout' = layout, lastID' \in Nat, lastID' >= lastID, NEW s, Genuine(s)
  PROVE  Genuine(s)'
BY DEF Genuine, adminUser, aliasUser, UserFor, UIDFor, InRange, TypeOK

-----------------------------------------------------------------------------
\* One lemma for each kind of step.

LEMMA InitHolds == Init => IInv
<1> SUFFICES ASSUME Init PROVE IInv
  OBVIOUS
<1>1. TypeOK
  BY DirectoryAssumption DEF Init, TypeOK, Idle
<1>2. LoginOK
  BY DEF Init, LoginOK, Idle, NoEntry, Entries
<1>3. EntriesAreGenuine /\ ListingIsSeen /\ KeyIsIdentity
  BY DEF Init, Idle, EntriesAreGenuine, ListingIsSeen, KeyIsIdentity
<1> QED BY <1>1, <1>2, <1>3 DEF IInv

LEMMA LookupKeeps ==
  ASSUME IInv, NEW t \in Typed, LooksUp(t)
  PROVE  IInv'
<1>1. PICK u \in UserByName(t) : login' = [Idle EXCEPT !.at = "keys", !.entry = u]
  BY DEF LooksUp
<1>2. Genuine(u)
  <2>1. \/ u = adminUser \/ u = aliasUser
        \/ \E id \in DOMAIN clients : u = UserFor(id) /\ InRange(layout, u.uid)
    BY DEF UserByName
  <2> QED BY <2>1 DEF Genuine, IInv, TypeOK
<1>3. u \in Entries
  BY <1>2, GenuineEntries DEF IInv
<1>4. /\ login' = [at |-> "keys", entry |-> u, admin |-> FALSE, who |-> Nobody]
      /\ seen' = {Holders} /\ edits' = 0
      /\ UNCHANGED <<layout, configured, clients, lastID, adminKey, running>>
  BY <1>1 DEF LooksUp, Idle
<1>5. TypeOK' /\ LoginOK'
  BY <1>3, <1>4 DEF IInv, TypeOK, LoginOK, Ids
<1>6. EntriesAreGenuine'
  BY <1>2, <1>4 DEF IInv, EntriesAreGenuine, Genuine, adminUser, aliasUser, UserFor
<1>7. ListingIsSeen' /\ KeyIsIdentity'
  BY <1>4 DEF ListingIsSeen, KeyIsIdentity, Holders
<1> QED BY <1>5, <1>6, <1>7 DEF IInv

LEMMA AdminKeysKeep == IInv /\ ListsAdminKeys => IInv'
<1> SUFFICES ASSUME IInv, ListsAdminKeys PROVE IInv'
  OBVIOUS
<1>1. /\ login.at = "keys"
      /\ login' = [login EXCEPT !.at = "clients", !.admin = adminKey]
      /\ UNCHANGED <<layout, configured, clients, lastID, adminKey, seen, edits, running>>
  BY DEF ListsAdminKeys
<1>2. /\ login'.at = "clients" /\ login'.entry = login.entry /\ login'.who = login.who
      /\ (login'.admin <=> adminKey) /\ LoginOK'
  BY <1>1 DEF IInv, TypeOK, LoginOK
<1>3. TypeOK'
  BY <1>1, <1>2 DEF IInv, TypeOK, LoginOK, Ids
<1>4. EntriesAreGenuine'
  BY <1>1, <1>2 DEF IInv, EntriesAreGenuine, Genuine, adminUser, aliasUser, UserFor
<1>5. ListingIsSeen'
  <2> SUFFICES ASSUME edits < 2
               PROVE  /\ Holders \in seen
                      /\ adminKey => \E held \in seen : Admin \in held
                      /\ ~adminKey => Holders \ {Admin} \in seen
    BY <1>1, <1>2 DEF ListingIsSeen, Holders
  <2>1. Holders \in seen
    BY <1>1 DEF IInv, ListingIsSeen
  <2>2. Admin \in Holders <=> adminKey
    BY DirectoryAssumption DEF IInv, TypeOK, Holders
  <2> QED BY <2>1, <2>2
<1>6. KeyIsIdentity'
  BY <1>2 DEF KeyIsIdentity
<1> QED BY <1>2, <1>3, <1>4, <1>5, <1>6 DEF IInv

LEMMA ClientsKeep == IInv /\ ListsClients => IInv'
<1> SUFFICES ASSUME IInv, ListsClients PROVE IInv'
  OBVIOUS
<1>1. PICK who \in IF login.admin THEN {Admin}
                   ELSE IF Holders \ {Admin} = {} THEN {Nobody} ELSE Holders \ {Admin} :
         login' = [login EXCEPT !.at = "done", !.who = who]
  BY DEF ListsClients
<1>2. login.at = "clients"
      /\ UNCHANGED <<layout, configured, clients, lastID, adminKey, seen, edits, running>>
  BY DEF ListsClients
<1>3. who \in Ids \union {Admin, Nobody}
  <2>1. DOMAIN clients \subseteq Ids
    BY DirectoryAssumption DEF IInv, TypeOK, Ids
  <2>2. Holders \ {Admin} \subseteq Ids
    BY <2>1 DEF Holders
  <2> QED BY <1>1, <2>2
<1>4. /\ login'.at = "done" /\ login'.entry = login.entry /\ login'.who = who
      /\ LoginOK'
  BY <1>1, <1>3 DEF IInv, LoginOK
<1>5. TypeOK'
  BY <1>2, <1>4 DEF IInv, TypeOK, LoginOK, Ids
<1>6. EntriesAreGenuine'
  BY <1>2, <1>4 DEF IInv, EntriesAreGenuine, Genuine, adminUser, aliasUser, UserFor
<1>7. ListingIsSeen'
  BY <1>4 DEF ListingIsSeen
<1>8. KeyIsIdentity'
  <2> SUFFICES ASSUME edits < 2 PROVE \E held \in seen : who \in Owners(held)
    BY <1>2, <1>4 DEF KeyIsIdentity, Owners
  <2>1. CASE login.admin
    BY <1>1, <1>2, <2>1 DEF IInv, ListingIsSeen, Owners
  <2>2. CASE ~login.admin
    <3>1. Holders \ {Admin} \in seen
      BY <1>2, <2>2 DEF IInv, ListingIsSeen
    <3>2. who \in Owners(Holders \ {Admin})
      BY <1>1, <2>2 DEF Owners
    <3> QED BY <3>1, <3>2
  <2> QED BY <2>1, <2>2
<1> QED BY <1>4, <1>5, <1>6, <1>7, <1>8 DEF IInv

LEMMA OpensKeeps == IInv /\ Opens => IInv'
<1> SUFFICES ASSUME IInv, Opens PROVE IInv'
  OBVIOUS
<1>1. /\ login.at = "done" /\ login' = Idle /\ edits' = 0
      /\ running' \subseteq running \union {login.entry}
      /\ UNCHANGED <<layout, configured, clients, lastID, adminKey>>
  BY DEF Opens
<1>2. TypeOK' /\ LoginOK'
  BY <1>1 DEF IInv, TypeOK, LoginOK, Idle, NoEntry, Entries, Ids
<1>3. EntriesAreGenuine'
  BY <1>1 DEF IInv, EntriesAreGenuine, Genuine, Idle, adminUser, aliasUser, UserFor
<1>4. ListingIsSeen' /\ KeyIsIdentity'
  BY <1>1 DEF ListingIsSeen, KeyIsIdentity, Idle
<1> QED BY <1>2, <1>3, <1>4 DEF IInv

LEMMA EndsKeeps == ASSUME IInv, NEW s \in running, Ends(s) PROVE IInv'
<1>1. TypeOK' /\ LoginOK'
  BY DEF Ends, IInv, TypeOK, LoginOK
<1>2. EntriesAreGenuine'
  BY DEF Ends, IInv, EntriesAreGenuine, Genuine, adminUser, aliasUser, UserFor
<1>3. ListingIsSeen' /\ KeyIsIdentity'
  BY DEF Ends, IInv, ListingIsSeen, KeyIsIdentity, Holders
<1> QED BY <1>1, <1>2, <1>3 DEF IInv

\* An edit touches the clients or the administrators' keys and not both.
LEMMA EditKeeps ==
  ASSUME IInv, Edited, lastID' \in lastID..MaxRows,
         DOMAIN clients' \subseteq 1..lastID', clients' \in [DOMAIN clients' -> Rows],
         adminKey' \in BOOLEAN,
         clients' = clients \/ (adminKey' <=> adminKey)
  PROVE  IInv'
<1>1. /\ UNCHANGED <<layout, configured, login, running>>
      /\ edits' \in 0..2
      /\ login.at \notin {"keys", "clients"} => UNCHANGED <<seen, edits>>
      /\ login.at \in {"keys", "clients"} /\ edits' < 2 =>
           edits = 0 /\ edits' = 1 /\ seen' = seen \union {Holders'}
  BY DEF Edited, IInv, TypeOK
<1>2. TypeOK' /\ LoginOK'
  BY <1>1 DEF IInv, TypeOK, LoginOK
<1>3. EntriesAreGenuine'
  BY <1>1, GenuineStays DEF IInv, EntriesAreGenuine, TypeOK
<1>4. ListingIsSeen'
  <2> SUFFICES ASSUME edits' < 2, login.at \in {"keys", "clients"}
               PROVE  /\ Holders' \in seen'
                      /\ login.at = "clients" => edits' # 0
                      /\ login.at = "clients" /\ login.admin => \E held \in seen' : Admin \in held
                      /\ login.at = "clients" /\ ~login.admin => Holders' \ {Admin} \in seen'
    BY <1>1 DEF ListingIsSeen
  <2>1. edits = 0 /\ edits' = 1 /\ seen' = seen \union {Holders'}
    BY <1>1
  <2>2. ASSUME login.at = "clients", ~login.admin PROVE Holders' \ {Admin} \in seen'
    <3>1. ~adminKey /\ Holders \ {Admin} \in seen
      BY <2>1, <2>2 DEF IInv, ListingIsSeen
    <3>2. CASE clients' = clients
      <4>1. Holders' \ {Admin} = Holders \ {Admin}
        BY <3>2 DEF Holders
      <4> QED BY <2>1, <3>1, <4>1
    <3>3. CASE adminKey' <=> adminKey
      <4>1. Admin \notin Holders'
        BY <3>1, <3>3, DirectoryAssumption DEF Holders
      <4> QED BY <2>1, <4>1
    <3> QED BY <3>2, <3>3
  <2> QED BY <2>1, <2>2 DEF IInv, ListingIsSeen
<1>5. KeyIsIdentity'
  BY <1>1 DEF IInv, KeyIsIdentity
<1> QED BY <1>2, <1>3, <1>4, <1>5 DEF IInv

LEMMA ClientEditKeeps ==
  ASSUME IInv, NEW id \in DOMAIN clients,
         RemoveClient(id) \/ \E c \in Rows : UpdateClient(id, c)
  PROVE  IInv'
<1>1. /\ DOMAIN clients \subseteq 1..lastID /\ clients \in [DOMAIN clients -> Rows]
      /\ lastID \in 0..MaxRows /\ MaxRows \in Nat /\ adminKey \in BOOLEAN
  BY DirectoryAssumption DEF IInv, TypeOK
<1>2. CASE \E c \in Rows : UpdateClient(id, c)
  BY <1>1, <1>2, EditKeeps DEF UpdateClient
<1>3. CASE RemoveClient(id)
  BY <1>1, <1>3, EditKeeps DEF RemoveClient
<1> QED BY <1>2, <1>3

LEMMA AddClientKeeps == ASSUME IInv, NEW c \in Rows, AddClient(c) PROVE IInv'
<1>1. /\ DOMAIN clients \subseteq 1..lastID /\ clients \in [DOMAIN clients -> Rows]
      /\ lastID \in 0..MaxRows /\ MaxRows \in Nat /\ adminKey \in BOOLEAN
  BY DirectoryAssumption DEF IInv, TypeOK
<1>2. lastID' = lastID + 1 /\ lastID' \in lastID..MaxRows /\ adminKey' = adminKey /\ Edited
  BY <1>1 DEF AddClient
<1>3. DOMAIN clients' \subseteq 1..lastID' /\ clients' \in [DOMAIN clients' -> Rows]
  BY <1>1, <1>2 DEF AddClient
<1> QED BY <1>1, <1>2, <1>3, EditKeeps

LEMMA KeyEditKeeps == IInv /\ (AddAdminKey \/ RemoveAdminKey) => IInv'
<1> SUFFICES ASSUME IInv, AddAdminKey \/ RemoveAdminKey PROVE IInv'
  OBVIOUS
<1>1. /\ adminKey' \in BOOLEAN /\ clients' = clients /\ lastID' = lastID /\ Edited
  BY DEF AddAdminKey, RemoveAdminKey
<1>2. lastID' \in lastID..MaxRows /\ DOMAIN clients' \subseteq 1..lastID'
      /\ clients' \in [DOMAIN clients' -> Rows]
  BY <1>1, DirectoryAssumption DEF IInv, TypeOK
<1> QED BY <1>1, <1>2, EditKeeps

LEMMA StepHolds == IInv /\ [Next]_accountVars => IInv'
<1> SUFFICES ASSUME IInv, [Next]_accountVars PROVE IInv'
  OBVIOUS
<1>1. CASE UNCHANGED accountVars
  BY <1>1 DEF accountVars, IInv, TypeOK, LoginOK, EntriesAreGenuine, Genuine, adminUser, aliasUser,
              UserFor, ListingIsSeen, KeyIsIdentity, Holders
<1>2. CASE Next
  <2>1. ASSUME NEW t \in Typed, LooksUp(t) PROVE IInv'
    BY <2>1, LookupKeeps
  <2>2. ASSUME NEW s \in running, Ends(s) PROVE IInv'
    BY <2>2, EndsKeeps
  <2>3. ASSUME NEW c \in Rows, AddClient(c) PROVE IInv'
    BY <2>3, AddClientKeeps
  <2>4. ASSUME NEW id \in DOMAIN clients, RemoveClient(id) \/ \E c \in Rows : UpdateClient(id, c)
        PROVE  IInv'
    BY <2>4, ClientEditKeeps
  <2> QED
    BY <1>2, <2>1, <2>2, <2>3, <2>4, AdminKeysKeep, ClientsKeep, OpensKeeps, KeyEditKeeps DEF Next
<1> QED BY <1>1, <1>2

LEMMA Inductive == Spec => []IInv
BY InitHolds, StepHolds, PTL DEF Spec

-----------------------------------------------------------------------------
\* Ids stay below the last one handed out and the layout stays the one validated.
THEOREM TypeCorrect == Spec => []TypeOK
<1>1. IInv => TypeOK
  BY DEF IInv
<1> QED BY <1>1, Inductive, PTL

\* With one edit at most while sshd has the keys listed, a login becomes whom its
\* key identified at some moment of the listing.
THEOREM KeysIdentify == Spec => []KeyIsIdentity
<1>1. IInv => KeyIsIdentity
  BY DEF IInv
<1> QED BY <1>1, Inductive, PTL

\* Of two accounts that ever were, neither gets the other's uid or the
\* administrators' group, and a uid is answered with its account.
THEOREM UidsAreApart == Spec => []UidsKeepApart
<1>1. ASSUME IInv, NEW s \in running, NEW r \in running
      PROVE  s.uid = r.uid <=> s.account = r.account
  <2>1. TypeOK /\ Genuine(s) /\ Genuine(r)
    BY <1>1 DEF IInv, EntriesAreGenuine
  <2> QED BY <2>1, LayoutNumbers, DirectoryAssumption
          DEF Genuine, adminUser, aliasUser, UserFor, UIDFor, Ids, TypeOK
<1>2. ASSUME IInv, NEW s \in running
      PROVE  /\ FirstNonSystemID <= s.uid /\ InRange(layout, s.uid)
             /\ \A u \in UserByUID(s.uid) : u = s
  <2>1. TypeOK /\ Genuine(s)
    BY <1>2 DEF IInv, EntriesAreGenuine
  <2>2. FirstNonSystemID <= s.uid /\ InRange(layout, s.uid)
    BY <2>1, LayoutNumbers, DirectoryAssumption
    DEF Genuine, adminUser, aliasUser, UserFor, UIDFor, TypeOK
  <2>3. ASSUME NEW u \in UserByUID(s.uid) PROVE u = s
    <3>1. CASE s = adminUser \/ s = aliasUser
      BY <2>1, <2>3, <3>1, LayoutNumbers DEF UserByUID, adminUser, aliasUser
    <3>2. CASE \E id \in 1..lastID : s = UserFor(id)
      <4>1. PICK id \in 1..lastID : s = UserFor(id)
        BY <3>2
      <4>2. id \in Nat /\ id > 0 /\ s.uid = id + layout["UIDBase"]
        BY <2>1, <4>1 DEF UserFor, UIDFor, TypeOK
      <4>3. PICK k \in DOMAIN clients : u = UserFor(k) /\ u.uid = s.uid
        BY <2>1, <2>3, <4>2, LayoutNumbers DEF UserByUID
      <4>4. k \in Nat /\ u.uid = k + layout["UIDBase"]
        BY <2>1, <4>3 DEF UserFor, UIDFor, TypeOK
      <4>5. k = id
        BY <2>1, <4>2, <4>3, <4>4, LayoutNumbers
      <4> QED BY <4>1, <4>3, <4>5
    <3> QED BY <2>1, <3>1, <3>2 DEF Genuine
  <2> QED BY <2>2, <2>3
<1>3. ASSUME IInv, NEW s \in running
      PROVE  \E g \in AllGroups :
               /\ GroupByGID(s.gid) = {g}
               /\ Admin \in g.members <=> s.account = Admin
               /\ s.account \in DOMAIN clients => s.account \in g.members
  <2> DEFINE admins == [gid |-> layout["AdminGroupGID"], members |-> {Admin}]
             shared == [gid |-> layout["SharedGroupGID"], members |-> DOMAIN clients]
  <2>1. TypeOK /\ Genuine(s) /\ DOMAIN clients \subseteq Nat
    BY <1>3 DEF IInv, EntriesAreGenuine, TypeOK
  <2>2. admins \in AllGroups /\ shared \in AllGroups
    BY DEF AllGroups
  <2>3. \A g \in AllGroups : g = admins \/ g = shared \/ g.gid > layout["GIDBase"]
    BY <2>1, LayoutNumbers, DirectoryAssumption DEF AllGroups, GIDFor, Ids
  <2>4. GroupByGID(admins.gid) = {admins} /\ GroupByGID(shared.gid) = {shared}
    BY <2>1, <2>2, <2>3, LayoutNumbers DEF GroupByGID
  <2>5. CASE s = adminUser
    BY <2>1, <2>2, <2>4, <2>5, DirectoryAssumption DEF adminUser
  <2>6. CASE s = aliasUser \/ \E id \in 1..lastID : s = UserFor(id)
    <3>1. s.gid = shared.gid /\ s.account # Admin
      BY <2>1, <2>6, DirectoryAssumption DEF aliasUser, UserFor, TypeOK
    <3>2. Admin \notin shared.members
      BY <2>1, DirectoryAssumption
    <3> QED BY <2>2, <2>4, <3>1, <3>2
  <2> QED BY <2>1, <2>5, <2>6 DEF Genuine
<1>4. ASSUME IInv, NEW u \in Users
      PROVE  UserByUID(u.uid) = {u}
  <2>1. TypeOK
    BY <1>4 DEF IInv
  <2>2. CASE u = adminUser
    BY <2>1, <2>2, LayoutNumbers DEF UserByUID, adminUser
  <2>3. CASE \E id \in DOMAIN clients : u = UserFor(id)
    <3>1. PICK id \in DOMAIN clients : u = UserFor(id)
      BY <2>3
    <3>2. \A k \in DOMAIN clients : k \in Nat /\ k > 0 /\ UserFor(k).uid = k + layout["UIDBase"]
      BY <2>1 DEF UserFor, UIDFor, TypeOK
    <3>3. UserByUID(u.uid) = {w \in {UserFor(k) : k \in DOMAIN clients} : w.uid = u.uid}
      BY <2>1, <3>1, <3>2, LayoutNumbers DEF UserByUID
    <3>4. \A k \in DOMAIN clients : UserFor(k).uid = u.uid => k = id
      BY <2>1, <3>1, <3>2, LayoutNumbers
    <3> QED BY <3>1, <3>3, <3>4
  <2> QED BY <2>2, <2>3 DEF Users
<1>5. IInv => UidsKeepApart
  BY <1>1, <1>2, <1>3, <1>4 DEF UidsKeepApart
<1> QED BY <1>5, Inductive, PTL
=============================================================================
