--------------------------- MODULE SessionTokens ----------------------------
(***************************************************************************)
(* From an SSH login to an API session.                                    *)
(*                                                                         *)
(* "authorized-keys" mints a token for the login; the session process      *)
(* exchanges it, once, for the credential it presents on every call and    *)
(* revokes at its end. The token sits in the environment of the session,   *)
(* so more than one caller may present it. Both tables are swept of        *)
(* expired rows whenever a row is inserted. Redeeming is one statement;    *)
(* everything else takes several, and serve may die between any two.       *)
(***************************************************************************)
EXTENDS Integers

CONSTANTS
  Logins,
  Callers,        (* who may present the token of a login                    *)
  TokenTTL,
  CredentialTTL,
  MaxTime,        (* bound: the clock                                        *)
  None

ASSUME TokenAssumption ==
  /\ TokenTTL \in Nat \ {0}
  /\ CredentialTTL \in Nat \ {0}
  /\ MaxTime \in Nat
  /\ None \notin Int

\* A credential is named by the exchange that created it.
Exchanges == Logins \X Callers

VARIABLES
  now,
  tokens,     (* session_tokens: expires_at of the row of each login         *)
  sessions,   (* api_sessions: expires_at of the row of each exchange        *)
  mint,       (* where "authorized-keys" is for a login                      *)
  minted,     (* the time it read                                            *)
  pc,         (* where ExchangeSessionToken and the session after it are     *)
  stamp       (* the time the exchange read for its second half              *)

vars == <<now, tokens, sessions, mint, minted, pc, stamp>>

Time == 0..MaxTime

TypeOK ==
  /\ now \in Time
  /\ tokens \in [Logins -> 0..(MaxTime + TokenTTL) \union {None}]
  /\ sessions \in [Exchanges -> 0..(MaxTime + CredentialTTL) \union {None}]
  /\ mint \in [Logins -> {"idle", "insert", "minted", "failed"}]
  /\ minted \in [Logins -> Time]
  /\ pc \in [Exchanges -> {"idle", "redeemed", "insert", "denied",
                          "open", "abandoned", "closed"}]
  /\ stamp \in [Exchanges -> Time]

Init ==
  /\ now = 0
  /\ tokens = [l \in Logins |-> None]
  /\ sessions = [x \in Exchanges |-> None]
  /\ mint = [l \in Logins |-> "idle"]
  /\ minted = [l \in Logins |-> 0]
  /\ pc = [x \in Exchanges |-> "idle"]
  /\ stamp = [x \in Exchanges |-> 0]

-----------------------------------------------------------------------------
\* Mutant: swept up to the expiry of the row about to be inserted.
SweptAhead(table, at, ttl) ==
  [k \in DOMAIN table |-> IF table[k] # None /\ table[k] <= at + ttl THEN None ELSE table[k]]

\* insertToken, first statement. at is the time the caller read.
Swept(table, at, ttl) ==
  [k \in DOMAIN table |-> IF table[k] # None /\ table[k] <= at THEN None ELSE table[k]]

\* lineFor, MintSessionToken: the time, the sweep ...
MintSweeps(l) ==
  /\ mint[l] = "idle"
  /\ mint' = [mint EXCEPT ![l] = "insert"]
  /\ minted' = [minted EXCEPT ![l] = now]
  /\ tokens' = Swept(tokens, now, TokenTTL)
  /\ UNCHANGED <<now, sessions, pc, stamp>>

\* ... and the row.
MintInserts(l) ==
  /\ mint[l] = "insert"
  /\ mint' = [mint EXCEPT ![l] = "minted"]
  /\ tokens' = [tokens EXCEPT ![l] = minted[l] + TokenTTL]
  /\ UNCHANGED <<now, sessions, minted, pc, stamp>>

\* The line is printed without a token: there will be no session.
MintFails(l) ==
  /\ mint[l] \in {"idle", "insert"}
  /\ mint' = [mint EXCEPT ![l] = "failed"]
  /\ UNCHANGED <<now, tokens, sessions, minted, pc, stamp>>

-----------------------------------------------------------------------------
Redeemable(l) == tokens[l] # None /\ tokens[l] > now

\* Mutant: the row is read and left to the next sweep.
RedeemsKeeping(l, c) ==
  /\ mint[l] = "minted"
  /\ pc[<<l, c>>] = "idle"
  /\ IF Redeemable(l)
     THEN /\ pc' = [pc EXCEPT ![<<l, c>>] = "redeemed"]
          /\ UNCHANGED tokens
     ELSE /\ pc' = [pc EXCEPT ![<<l, c>>] = "denied"]
          /\ UNCHANGED tokens
  /\ UNCHANGED <<now, sessions, mint, minted, stamp>>

\* RedeemSessionToken: DELETE ... RETURNING of a row that has not expired.
\* Without one the caller is told 401.
Redeems(l, c) ==
  /\ mint[l] = "minted"
  /\ pc[<<l, c>>] = "idle"
  /\ IF Redeemable(l)
     THEN /\ pc' = [pc EXCEPT ![<<l, c>>] = "redeemed"]
          /\ tokens' = [tokens EXCEPT ![l] = None]
     ELSE /\ pc' = [pc EXCEPT ![<<l, c>>] = "denied"]
          /\ UNCHANGED tokens
  /\ UNCHANGED <<now, sessions, mint, minted, stamp>>

\* CreateAPISession, by the same two statements as a mint.
ExchangeSweeps(x) ==
  /\ pc[x] = "redeemed"
  /\ pc' = [pc EXCEPT ![x] = "insert"]
  /\ stamp' = [stamp EXCEPT ![x] = now]
  /\ sessions' = Swept(sessions, now, CredentialTTL)
  /\ UNCHANGED <<now, tokens, mint, minted>>

\* Mutant: the lifetime is added twice.
ExchangeDoubles(x) ==
  /\ pc[x] = "insert"
  /\ pc' = [pc EXCEPT ![x] = "open"]
  /\ sessions' = [sessions EXCEPT ![x] = stamp[x] + 2 * CredentialTTL]
  /\ UNCHANGED <<now, tokens, mint, minted, stamp>>

ExchangeInserts(x) ==
  /\ pc[x] = "insert"
  /\ pc' = [pc EXCEPT ![x] = "open"]
  /\ sessions' = [sessions EXCEPT ![x] = stamp[x] + CredentialTTL]
  /\ UNCHANGED <<now, tokens, mint, minted, stamp>>

\* A statement fails after the token is spent: 500, and no session.
ExchangeFails(x) ==
  /\ pc[x] \in {"redeemed", "insert"}
  /\ pc' = [pc EXCEPT ![x] = "denied"]
  /\ UNCHANGED <<now, tokens, sessions, mint, minted, stamp>>

\* serve dies: the same for every exchange under way.
Crash ==
  /\ \E x \in Exchanges : pc[x] \in {"redeemed", "insert"}
  /\ pc' = [x \in Exchanges |-> IF pc[x] \in {"redeemed", "insert"} THEN "denied" ELSE pc[x]]
  /\ UNCHANGED <<now, tokens, sessions, mint, minted, stamp>>

\* LookupAPISession: what every call of the session starts with. It reads.
Accepted(x) == sessions[x] # None /\ sessions[x] > now

\* Mutant: the caller forgets its credential and the row stays.
RevokesNothing(x) ==
  /\ pc[x] = "open"
  /\ pc' = [pc EXCEPT ![x] = "closed"]
  /\ UNCHANGED <<now, tokens, sessions, mint, minted, stamp>>

\* RevokeAPISession at the end of the session, whether or not the row is
\* still there.
Revokes(x) ==
  /\ pc[x] = "open"
  /\ pc' = [pc EXCEPT ![x] = "closed"]
  /\ sessions' = [sessions EXCEPT ![x] = None]
  /\ UNCHANGED <<now, tokens, mint, minted, stamp>>

\* The answer to the exchange is lost, the session process is killed, or its
\* last call fails: the row stays.
Abandons(x) ==
  /\ pc[x] = "open"
  /\ pc' = [pc EXCEPT ![x] = "abandoned"]
  /\ UNCHANGED <<now, tokens, sessions, mint, minted, stamp>>

Tick ==
  /\ now < MaxTime
  /\ now' = now + 1
  /\ UNCHANGED <<tokens, sessions, mint, minted, pc, stamp>>

Next ==
  \/ \E l \in Logins :
       \/ MintSweeps(l) \/ MintInserts(l) \/ MintFails(l)
       \/ \E c \in Callers : Redeems(l, c)
  \/ \E x \in Exchanges :
       \/ ExchangeSweeps(x) \/ ExchangeInserts(x) \/ ExchangeFails(x)
       \/ Revokes(x) \/ Abandons(x)
  \/ Crash
  \/ Tick

Spec == Init /\ [][Next]_vars

-----------------------------------------------------------------------------
(* Properties.                                                               *)

\* One exchange per login at most gets past the redemption, whoever presents
\* the token, how often and when: not even after the first has ended.
Spent == {"redeemed", "insert", "open", "abandoned", "closed"}
SingleUse ==
  \A l \in Logins : \A c, d \in Callers :
    pc[<<l, c>>] \in Spent /\ pc[<<l, d>>] \in Spent => c = d

\* Nobody is locked out: until its own time is up a token nobody presented can
\* be redeemed and a credential its session holds is accepted, whatever other
\* logins sweep meanwhile.
NobodyLockedOut ==
  /\ \A l \in Logins :
       mint[l] = "minted" /\ (\A c \in Callers : pc[<<l, c>>] = "idle") /\ now < minted[l] + TokenTTL
         => Redeemable(l)
  /\ \A x \in Exchanges :
       pc[x] = "open" /\ now < stamp[x] + CredentialTTL => Accepted(x)

\* A credential is accepted only from the end of its exchange to the end of
\* its session, or to the end of its time where the session could not say
\* goodbye.
OnlyLiveSessions ==
  \A x \in Exchanges :
    Accepted(x) => pc[x] \in {"open", "abandoned"} /\ now < stamp[x] + CredentialTTL

\* The tables keep the promise of Admission. A caller is in when its row is
\* there; until then the ticket of an exchange under way counts as valid.
Pending(l) == \E c \in Callers : pc[<<l, c>>] \in {"redeemed", "insert"}
Ticket == [l \in Logins |->
  IF mint[l] \in {"idle", "insert"} THEN "none"
  ELSE IF Redeemable(l) \/ Pending(l) THEN "valid" ELSE "gone"]
Inside == [x \in Exchanges |->
  IF pc[x] \in {"idle", "redeemed", "insert", "denied"} THEN "no"
  ELSE IF Accepted(x) THEN "yes" ELSE "left"]
Promise == INSTANCE Admission WITH ticket <- Ticket, inside <- Inside
AdmitsOnce == Promise!ASpec
=============================================================================
