------------------------------ MODULE Accounts ------------------------------
(***************************************************************************)
(* Whose session a login becomes. sshd asks the directory for an account   *)
(* by the name that was typed, then "authorized-keys" for the keys that    *)
(* may log in: those of the administrators, then those of the clients, in  *)
(* two statements. The first line with the key that was offered carries    *)
(* the identity; the name only gives the uid the session runs under.       *)
(* Administrators meanwhile edit clients and keys.                         *)
(*                                                                         *)
(* There is one key, and everybody holds it or does not. The token on each *)
(* line, and failing to mint one, is left to SessionTokens.                *)
(***************************************************************************)
EXTENDS Directory

Rows == [name : ClientNames, holds : BOOLEAN]
NoEntry == [account |-> Nobody, uid |-> 0, gid |-> 0]
Idle == [at |-> "idle", entry |-> NoEntry, admin |-> FALSE, who |-> Nobody]

Init ==
  /\ layout \in {l \in Layouts : Validate(l)}
  /\ configured \in BOOLEAN
  /\ clients = [id \in {} |-> {}]
  /\ lastID = 0
  /\ adminKey = configured  \* storeAdminKey, before anything is served
  /\ login = Idle
  /\ seen = {}
  /\ edits = 0
  /\ running = {}

(***************************************************************************)
(* A login, one at a time                                                  *)
(***************************************************************************)
\* sshd: the account; an unknown name is refused here. authorized-keys is then
\* run and itself refuses a name that is none.
LooksUp(t) ==
  /\ login.at = "idle"
  /\ t \in ValidLoginName
  /\ \E u \in UserByName(t) : login' = [Idle EXCEPT !.at = "keys", !.entry = u]
  /\ seen' = {Holders}
  /\ edits' = 0
  /\ UNCHANGED <<layout, configured, clients, lastID, adminKey, running>>

\* WriteAuthorizedKeys: the administrators' keys ...
ListsAdminKeys ==
  /\ login.at = "keys"
  /\ login' = [login EXCEPT !.at = "clients", !.admin = adminKey]
  /\ UNCHANGED <<layout, configured, clients, lastID, adminKey, seen, edits, running>>

\* Mutant: of the clients only the one that was named.
ListsNamesake ==
  /\ login.at = "clients"
  /\ \E who \in IF login.admin THEN {Admin}
                ELSE IF login.entry.account \in Holders THEN {login.entry.account}
                ELSE {Nobody} :
       login' = [login EXCEPT !.at = "done", !.who = who]
  /\ UNCHANGED <<layout, configured, clients, lastID, adminKey, seen, edits, running>>

\* ... and the clients'. The first line with the key decides.
ListsClients ==
  /\ login.at = "clients"
  /\ \E who \in IF login.admin THEN {Admin}
                ELSE IF Holders \ {Admin} = {} THEN {Nobody} ELSE Holders \ {Admin} :
       login' = [login EXCEPT !.at = "done", !.who = who]
  /\ UNCHANGED <<layout, configured, clients, lastID, adminKey, seen, edits, running>>

\* The session runs under the uid of the account sshd looked up at the start.
Opens ==
  /\ login.at = "done"
  /\ login' = Idle
  /\ running' = IF login.who = Nobody THEN running ELSE running \union {login.entry}
  /\ seen' = {}
  /\ edits' = 0
  /\ UNCHANGED <<layout, configured, clients, lastID, adminKey>>

Ends(s) ==
  /\ running' = running \ {s}
  /\ UNCHANGED <<layout, configured, clients, lastID, adminKey, login, seen, edits>>

(***************************************************************************)
(* Administrators. Each edit is one statement.                             *)
(***************************************************************************)
Edited ==
  /\ IF login.at \in {"keys", "clients"}
     THEN /\ edits' = IF edits < 2 THEN edits + 1 ELSE edits
          /\ seen' = IF edits = 0 THEN seen \union {Holders'} ELSE {}
     ELSE UNCHANGED <<seen, edits>>
  /\ UNCHANGED <<layout, configured, login, running>>

\* The name of a row is unique; the id of a removed one is never used again.
Named(n) == {id \in DOMAIN clients : clients[id].name = n}

AddClient(c) ==
  /\ Named(c.name) = {}
  /\ lastID < MaxRows
  /\ lastID' = lastID + 1
  /\ clients' = [id \in DOMAIN clients \union {lastID'} |->
                   IF id = lastID' THEN c ELSE clients[id]]
  /\ UNCHANGED adminKey
  /\ Edited

UpdateClient(id, c) ==
  /\ Named(c.name) \subseteq {id}
  /\ clients' = [clients EXCEPT ![id] = c]
  /\ UNCHANGED <<lastID, adminKey>>
  /\ Edited

RemoveClient(id) ==
  /\ clients' = [k \in DOMAIN clients \ {id} |-> clients[k]]
  /\ UNCHANGED <<lastID, adminKey>>
  /\ Edited

AddAdminKey ==
  /\ adminKey' = TRUE
  /\ UNCHANGED <<clients, lastID>>
  /\ Edited

\* The key serve was started with is refused with a 409.
RemoveAdminKey ==
  /\ ~configured
  /\ adminKey' = FALSE
  /\ UNCHANGED <<clients, lastID>>
  /\ Edited

Next ==
  \/ \E t \in Typed : LooksUp(t)
  \/ ListsAdminKeys \/ ListsClients \/ Opens
  \/ \E s \in running : Ends(s)
  \/ \E c \in Rows :
       \/ AddClient(c)
       \/ \E id \in DOMAIN clients : UpdateClient(id, c)
  \/ \E id \in DOMAIN clients : RemoveClient(id)
  \/ AddAdminKey \/ RemoveAdminKey

Spec == Init /\ [][Next]_accountVars

(***************************************************************************)
(* Properties                                                              *)
(***************************************************************************)
TypeOK ==
  /\ layout \in Layouts /\ Validate(layout)
  /\ configured \in BOOLEAN /\ adminKey \in BOOLEAN
  /\ lastID \in 0..MaxRows
  /\ DOMAIN clients \subseteq 1..lastID
  /\ clients \in [DOMAIN clients -> Rows]
  /\ login.at \in {"idle", "keys", "clients", "done"}
  /\ login.admin \in BOOLEAN
  /\ login.who \in Ids \union {Admin, Nobody}
  /\ edits \in 0..2
=============================================================================
