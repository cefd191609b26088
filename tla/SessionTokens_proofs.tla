------------------------ MODULE SessionTokens_proofs -------------------------
(***************************************************************************)
(* What SessionTokens promises, for any number of logins and callers and   *)
(* any lifetimes. The invariants the runs check are not inductive: that    *)
(* nobody can redeem a token twice rests on where the row of a spent token *)
(* is, and that a sweep spares the living rests on what the rows expire at. *)
(***************************************************************************)
EXTENDS SessionTokens, TLAPS

-----------------------------------------------------------------------------
\* A row is in the table when its mint has ended, and dated by it.
TokenRows ==
  \A l \in Logins : tokens[l] # None => mint[l] = "minted" /\ tokens[l] = minted[l] + TokenTTL

\* Nobody is past the redemption while the row is there or is yet to come.
SpentIsGone ==
  \A l \in Logins, c \in Callers :
    /\ pc[<<l, c>>] # "idle" => mint[l] = "minted"
    /\ pc[<<l, c>>] \in Spent => tokens[l] = None

\* A credential is in the table for a session that was opened, and dated by it.
CredentialRows ==
  \A x \in Exchanges :
    sessions[x] # None =>
      pc[x] \in {"open", "abandoned"} /\ sessions[x] = stamp[x] + CredentialTTL

\* The rows of NobodyLockedOut are there.
LivingRows ==
  /\ \A l \in Logins :
       mint[l] = "minted" /\ (\A c \in Callers : pc[<<l, c>>] = "idle") /\ now < minted[l] + TokenTTL
         => tokens[l] # None
  /\ \A x \in Exchanges :
       pc[x] = "open" /\ now < stamp[x] + CredentialTTL => sessions[x] # None

IInv ==
  TypeOK /\ TokenRows /\ SpentIsGone /\ SingleUse /\ CredentialRows /\ LivingRows

-----------------------------------------------------------------------------
LEMMA InitHolds == Init => IInv
BY TokenAssumption
   DEF Init, IInv, TypeOK, TokenRows, SpentIsGone, SingleUse, CredentialRows, LivingRows,
       Time, Spent, Exchanges

\* Every step keeps the strengthening.
LEMMA StepHolds == IInv /\ [Next]_vars => IInv'
<1> SUFFICES ASSUME IInv, [Next]_vars PROVE IInv'
  OBVIOUS
<1> USE TokenAssumption DEF IInv
<1>1. CASE UNCHANGED vars
  BY <1>1 DEF vars, TypeOK, TokenRows, SpentIsGone, SingleUse, CredentialRows, LivingRows
<1>2. ASSUME NEW l \in Logins, MintSweeps(l) PROVE IInv'
  BY <1>2 DEF MintSweeps, Swept, TypeOK, TokenRows, SpentIsGone, SingleUse, CredentialRows,
              LivingRows, Time, Exchanges, Spent
<1>3. ASSUME NEW l \in Logins, MintInserts(l) PROVE IInv'
  BY <1>3 DEF MintInserts, TypeOK, TokenRows, SpentIsGone, SingleUse, CredentialRows,
              LivingRows, Time, Exchanges, Spent
<1>4. ASSUME NEW l \in Logins, MintFails(l) PROVE IInv'
  BY <1>4 DEF MintFails, TypeOK, TokenRows, SpentIsGone, SingleUse, CredentialRows,
              LivingRows, Time, Exchanges, Spent
<1>5. ASSUME NEW l \in Logins, NEW c \in Callers, Redeems(l, c) PROVE IInv'
  <2>1. /\ <<l, c>> \in Exchanges
        /\ mint[l] = "minted" /\ pc[<<l, c>>] = "idle"
        /\ UNCHANGED <<now, sessions, mint, minted, stamp>>
    BY <1>5 DEF Redeems, Exchanges
  <2>2. CASE Redeemable(l)
    <3>1. /\ pc' = [pc EXCEPT ![<<l, c>>] = "redeemed"]
          /\ tokens' = [tokens EXCEPT ![l] = None]
      BY <1>5, <2>2 DEF Redeems
    <3>2. TypeOK'
      BY <2>1, <3>1 DEF TypeOK
    <3>3. TokenRows' /\ CredentialRows'
      BY <2>1, <3>1 DEF TypeOK, TokenRows, CredentialRows, Exchanges
    \* The row was there, so nobody was past the redemption before.
    <3>4. \A d \in Callers : pc[<<l, d>>] \notin Spent
      BY <2>2 DEF Redeemable, SpentIsGone
    <3>5. SpentIsGone'
      BY <2>1, <3>1 DEF TypeOK, SpentIsGone, Exchanges, Spent
    <3>6. SingleUse'
      BY <2>1, <3>1, <3>4 DEF TypeOK, SingleUse, Exchanges, Spent
    <3>7. LivingRows'
      BY <2>1, <3>1 DEF TypeOK, LivingRows, Exchanges
    <3> QED BY <3>2, <3>3, <3>5, <3>6, <3>7
  <2>3. CASE ~Redeemable(l)
    <3>1. pc' = [pc EXCEPT ![<<l, c>>] = "denied"] /\ UNCHANGED tokens
      BY <1>5, <2>3 DEF Redeems
    <3> QED
      BY <2>1, <3>1 DEF TypeOK, TokenRows, SpentIsGone, SingleUse, CredentialRows, LivingRows,
                        Exchanges, Spent
  <2> QED BY <2>2, <2>3
<1>6. ASSUME NEW x \in Exchanges, ExchangeSweeps(x) PROVE IInv'
  BY <1>6 DEF ExchangeSweeps, Swept, TypeOK, TokenRows, SpentIsGone, SingleUse,
              CredentialRows, LivingRows, Time, Exchanges, Spent
<1>7. ASSUME NEW x \in Exchanges, ExchangeInserts(x) PROVE IInv'
  BY <1>7 DEF ExchangeInserts, TypeOK, TokenRows, SpentIsGone, SingleUse, CredentialRows,
              LivingRows, Time, Exchanges, Spent
<1>8. ASSUME NEW x \in Exchanges, ExchangeFails(x) PROVE IInv'
  BY <1>8 DEF ExchangeFails, TypeOK, TokenRows, SpentIsGone, SingleUse, CredentialRows,
              LivingRows, Time, Exchanges, Spent
<1>9. ASSUME NEW x \in Exchanges, Revokes(x) PROVE IInv'
  BY <1>9 DEF Revokes, TypeOK, TokenRows, SpentIsGone, SingleUse, CredentialRows,
              LivingRows, Time, Exchanges, Spent
<1>10. ASSUME NEW x \in Exchanges, Abandons(x) PROVE IInv'
  BY <1>10 DEF Abandons, TypeOK, TokenRows, SpentIsGone, SingleUse, CredentialRows,
               LivingRows, Time, Exchanges, Spent
<1>11. CASE Crash
  BY <1>11 DEF Crash, TypeOK, TokenRows, SpentIsGone, SingleUse, CredentialRows,
               LivingRows, Time, Exchanges, Spent
<1>12. CASE Tick
  BY <1>12 DEF Tick, TypeOK, TokenRows, SpentIsGone, SingleUse, CredentialRows,
               LivingRows, Time, Exchanges, Spent
<1> QED
  BY <1>1, <1>2, <1>3, <1>4, <1>5, <1>6, <1>7, <1>8, <1>9, <1>10, <1>11, <1>12 DEF Next

LEMMA Inductive == Spec => []IInv
BY InitHolds, StepHolds, PTL DEF Spec

-----------------------------------------------------------------------------
\* The tables and the clock stay what the schema says they are.
THEOREM TypeCorrect == Spec => []TypeOK
<1>1. IInv => TypeOK
  BY DEF IInv
<1> QED BY <1>1, Inductive, PTL

\* A minted token opens one session, however many hold it.
THEOREM TokensAreSpentOnce == Spec => []SingleUse
<1>1. IInv => SingleUse
  BY DEF IInv
<1> QED BY <1>1, Inductive, PTL

\* The sweep that comes with every insert never takes a row still in time.
THEOREM SweepsSpareTheLiving == Spec => []NobodyLockedOut
<1>1. IInv => NobodyLockedOut
  BY TokenAssumption
     DEF IInv, TypeOK, TokenRows, CredentialRows, LivingRows, NobodyLockedOut, Redeemable,
         Accepted, Time, Exchanges
<1> QED BY <1>1, Inductive, PTL

\* No call is accepted for a session that ended or before it began.
THEOREM CredentialsEndWithSessions == Spec => []OnlyLiveSessions
<1>1. IInv => OnlyLiveSessions
  BY TokenAssumption
     DEF IInv, TypeOK, CredentialRows, OnlyLiveSessions, Accepted, Time, Exchanges
<1> QED BY <1>1, Inductive, PTL
-----------------------------------------------------------------------------
(* The tables implement Admission.                                           *)

LEMMA PromiseInit == Init => Promise!AInit
BY TokenAssumption
   DEF Init, Promise!AInit, Ticket, Inside, Exchanges

\* A step under which each ticket and each caller stands as before.
LEMMA Unseen ==
  ASSUME \A l \in Logins : Redeemable(l)' <=> Redeemable(l),
         \A l \in Logins : Pending(l)' <=> Pending(l),
         \A l \in Logins : mint'[l] \in {"idle", "insert"} <=> mint[l] \in {"idle", "insert"}
  PROVE  UNCHANGED Ticket
BY DEF Ticket

\* A step under which tickets only lapse and callers only leave.
LEMMA Endings ==
  ASSUME \A l \in Logins :
           Ticket'[l] = Ticket[l] \/ (Ticket[l] = "valid" /\ Ticket'[l] = "gone"),
         \A x \in Exchanges :
           Inside'[x] = Inside[x] \/ (Inside[x] = "yes" /\ Inside'[x] = "left")
  PROVE  \E ls \in SUBSET Logins, ins \in SUBSET (Logins \X Callers) : Promise!End(ls, ins)
<1> DEFINE ls  == {l \in Logins : Ticket'[l] # Ticket[l]}
           ins == {x \in Exchanges : Inside'[x] # Inside[x]}
<1>1. Ticket' = [l \in Logins |-> IF l \in ls THEN "gone" ELSE Ticket[l]]
  BY DEF Ticket
<1>2. Inside' = [i \in Exchanges |-> IF i \in ins THEN "left" ELSE Inside[i]]
  BY DEF Inside
<1>3. Promise!End(ls, ins)
  BY <1>1, <1>2 DEF Promise!End, Exchanges
<1>4. ls \in SUBSET Logins /\ ins \in SUBSET (Logins \X Callers)
  BY DEF Exchanges
<1> HIDE DEF ls, ins
<1> QED BY <1>3, <1>4

\* Every step is one of the abstract steps or changes nothing there.
LEMMA PromiseStep == IInv /\ [Next]_vars => [Promise!ANext]_(Promise!avars)
<1> SUFFICES ASSUME IInv, [Next]_vars PROVE Promise!ANext \/ UNCHANGED <<Ticket, Inside>>
  BY DEF Promise!avars
<1> USE TokenAssumption DEF IInv
<1>1. CASE UNCHANGED vars
  BY <1>1 DEF vars, Ticket, Inside, Redeemable, Accepted, Pending
<1>2. ASSUME NEW l \in Logins, MintSweeps(l) PROVE UNCHANGED <<Ticket, Inside>>
  <2>1. \A k \in Logins : Redeemable(k)' <=> Redeemable(k)
    BY <1>2 DEF MintSweeps, Swept, Redeemable, TypeOK, Time
  <2>2. \A k \in Logins : Pending(k)' <=> Pending(k)
    BY <1>2 DEF MintSweeps, Pending
  <2>3. \A k \in Logins : mint'[k] \in {"idle", "insert"} <=> mint[k] \in {"idle", "insert"}
    BY <1>2 DEF MintSweeps, TypeOK
  <2>4. UNCHANGED Inside
    BY <1>2 DEF MintSweeps, Inside, Accepted
  <2> QED BY <2>1, <2>2, <2>3, <2>4, Unseen
<1>3. ASSUME NEW l \in Logins, MintInserts(l) PROVE Promise!Issue(l)
  BY <1>3 DEF MintInserts, Ticket, Inside, Redeemable, Accepted, Pending, Promise!Issue,
              TypeOK, TokenRows, SpentIsGone, Time, Exchanges, Spent
<1>4. ASSUME NEW l \in Logins, MintFails(l) PROVE Promise!Issue(l)
  BY <1>4 DEF MintFails, Ticket, Inside, Redeemable, Accepted, Pending, Promise!Issue,
              TypeOK, TokenRows, SpentIsGone, Time, Exchanges, Spent
\* The row is taken, but then the exchange is under way.
<1>5. ASSUME NEW l \in Logins, NEW c \in Callers, Redeems(l, c) PROVE UNCHANGED <<Ticket, Inside>>
  <2>1. <<l, c>> \in Exchanges /\ pc[<<l, c>>] = "idle" /\ UNCHANGED <<now, sessions, mint>>
    BY <1>5 DEF Redeems, Exchanges
  <2>2. \E p \in {"redeemed", "denied"} : pc' = [pc EXCEPT ![<<l, c>>] = p]
    BY <1>5 DEF Redeems
  <2>3. UNCHANGED Inside
    BY <2>1, <2>2 DEF Inside, Accepted, TypeOK
  <2>4. \A k \in Logins : Redeemable(k)' \/ Pending(k)' <=> Redeemable(k) \/ Pending(k)
    <3>1. CASE Redeemable(l)
      <4>1. tokens' = [tokens EXCEPT ![l] = None] /\ pc' = [pc EXCEPT ![<<l, c>>] = "redeemed"]
        BY <1>5, <3>1 DEF Redeems
      <4>2. Pending(l)'
        BY <2>1, <4>1 DEF Pending, TypeOK
      <4>3. \A k \in Logins \ {l} : Redeemable(k)' <=> Redeemable(k)
        BY <2>1, <4>1 DEF Redeemable, TypeOK
      <4>4. \A k \in Logins \ {l} : Pending(k)' <=> Pending(k)
        BY <2>1, <4>1 DEF Pending, TypeOK, Exchanges
      <4> QED BY <3>1, <4>2, <4>3, <4>4
    <3>2. CASE ~Redeemable(l)
      <4>1. UNCHANGED tokens /\ pc' = [pc EXCEPT ![<<l, c>>] = "denied"]
        BY <1>5, <3>2 DEF Redeems
      <4>2. \A k \in Logins : Redeemable(k)' <=> Redeemable(k)
        BY <2>1, <4>1 DEF Redeemable
      <4>3. \A k \in Logins : Pending(k)' <=> Pending(k)
        BY <2>1, <4>1 DEF Pending, TypeOK, Exchanges
      <4> QED BY <4>2, <4>3
    <3> QED BY <3>1, <3>2
  <2>5. UNCHANGED Ticket
    BY <2>1, <2>4 DEF Ticket
  <2> QED BY <2>3, <2>5
<1>6. ASSUME NEW x \in Exchanges, ExchangeSweeps(x) PROVE UNCHANGED <<Ticket, Inside>>
  <2>1. \A k \in Logins : Redeemable(k)' <=> Redeemable(k)
    BY <1>6 DEF ExchangeSweeps, Redeemable
  <2>2. \A k \in Logins : Pending(k)' <=> Pending(k)
    BY <1>6 DEF ExchangeSweeps, Pending, TypeOK, Exchanges
  <2>3. \A y \in Exchanges : Accepted(y)' <=> Accepted(y)
    BY <1>6 DEF ExchangeSweeps, Swept, Accepted, TypeOK, Time
  <2>4. UNCHANGED Inside
    BY <1>6, <2>3 DEF ExchangeSweeps, Inside, TypeOK
  <2> QED BY <1>6, <2>1, <2>2, <2>4, Unseen DEF ExchangeSweeps
<1>7. ASSUME NEW x \in Exchanges, ExchangeInserts(x)
      PROVE  \E l \in Logins, c \in Callers : Promise!Admit(l, c)
  <2>1. PICK l \in Logins, c \in Callers : x = <<l, c>>
    BY DEF Exchanges
  <2>2. /\ pc[x] = "insert" /\ pc' = [pc EXCEPT ![x] = "open"]
        /\ sessions' = [sessions EXCEPT ![x] = stamp[x] + CredentialTTL]
        /\ UNCHANGED <<now, tokens, mint>>
    BY <1>7 DEF ExchangeInserts
  <2>3. mint[l] = "minted" /\ tokens[l] = None
    BY <2>1, <2>2 DEF SpentIsGone, Spent
  <2>4. \A d \in Callers : pc[<<l, d>>] \in Spent => d = c
    BY <2>1, <2>2 DEF SingleUse, Spent
  <2>5. Pending(l) /\ ~Pending(l)'
    BY <2>1, <2>2, <2>4 DEF Pending, TypeOK, Exchanges, Spent
  <2>6. \A k \in Logins \ {l} : Pending(k)' <=> Pending(k)
    BY <2>1, <2>2 DEF Pending, TypeOK, Exchanges
  <2>7. \A k \in Logins : Redeemable(k)' <=> Redeemable(k)
    BY <2>2 DEF Redeemable
  <2>8. Ticket[l] = "valid" /\ Ticket' = [Ticket EXCEPT ![l] = "gone"]
    <3>1. ~Redeemable(l)
      BY <2>3 DEF Redeemable
    <3> QED BY <2>2, <2>3, <2>5, <2>6, <2>7, <3>1 DEF Ticket
  <2>9. \A d \in Callers : Inside[<<l, d>>] = "no"
    BY <2>1, <2>2, <2>4 DEF Inside, Spent, TypeOK, Exchanges
  <2>10. \A y \in Exchanges \ {x} : Inside'[y] = Inside[y]
    BY <2>2 DEF Inside, Accepted, TypeOK
  <2>11. Inside'[x] \in {"yes", "left"}
    BY <2>2 DEF Inside, TypeOK
  <2>12. Inside' = [Inside EXCEPT ![x] = Inside'[x]]
    BY <2>10 DEF Inside
  <2> QED BY <2>1, <2>8, <2>9, <2>11, <2>12 DEF Promise!Admit
\* Of an exchange that fails only the ticket is seen to go, of several in a
\* crash each one's.
<1>8. ASSUME NEW D \in SUBSET Exchanges,
             \A y \in D : pc[y] \in {"redeemed", "insert"},
             pc' = [y \in Exchanges |-> IF y \in D THEN "denied" ELSE pc[y]],
             UNCHANGED <<now, tokens, sessions, mint>>
      PROVE  Promise!ANext
  <2>1. \A k \in Logins : Redeemable(k)' <=> Redeemable(k)
    BY <1>8 DEF Redeemable
  <2>2. \A k \in Logins : Pending(k)' => Pending(k)
    BY <1>8 DEF Pending, TypeOK, Exchanges
  <2>3. \A k \in Logins : Pending(k) => mint[k] = "minted"
    BY DEF Pending, SpentIsGone
  <2>4. \A k \in Logins :
          Ticket'[k] = Ticket[k] \/ (Ticket[k] = "valid" /\ Ticket'[k] = "gone")
    BY <1>8, <2>1, <2>2, <2>3 DEF Ticket
  <2>5. \A y \in Exchanges : Inside'[y] = Inside[y]
    BY <1>8 DEF Inside, Accepted
  <2> QED BY <2>4, <2>5, Endings DEF Promise!ANext
<1>9. ASSUME NEW x \in Exchanges, ExchangeFails(x) PROVE Promise!ANext
  <2>1. pc' = [y \in Exchanges |-> IF y \in {x} THEN "denied" ELSE pc[y]]
    BY <1>9 DEF ExchangeFails, TypeOK
  <2> QED BY <1>8, <1>9, <2>1 DEF ExchangeFails
<1>10. CASE Crash
  <2> DEFINE D == {y \in Exchanges : pc[y] \in {"redeemed", "insert"}}
  <2>1. pc' = [y \in Exchanges |-> IF y \in D THEN "denied" ELSE pc[y]]
    BY <1>10 DEF Crash
  <2> QED BY <1>8, <1>10, <2>1 DEF Crash
\* The caller leaves, unless its time was up before.
<1>11. ASSUME NEW x \in Exchanges, Revokes(x) PROVE Promise!ANext
  <2>1. /\ pc[x] = "open" /\ pc' = [pc EXCEPT ![x] = "closed"]
        /\ sessions' = [sessions EXCEPT ![x] = None]
        /\ UNCHANGED <<now, tokens, mint>>
    BY <1>11 DEF Revokes
  <2>2. \A k \in Logins : Redeemable(k)' <=> Redeemable(k)
    BY <2>1 DEF Redeemable
  <2>3. \A k \in Logins : Pending(k)' <=> Pending(k)
    BY <2>1 DEF Pending, TypeOK, Exchanges
  <2>4. UNCHANGED Ticket
    BY <2>1, <2>2, <2>3, Unseen
  <2>5. \A y \in Exchanges :
          Inside'[y] = Inside[y] \/ (Inside[y] = "yes" /\ Inside'[y] = "left")
    BY <2>1 DEF Inside, Accepted, TypeOK
  <2> QED BY <2>4, <2>5, Endings DEF Promise!ANext
<1>12. ASSUME NEW x \in Exchanges, Abandons(x) PROVE UNCHANGED <<Ticket, Inside>>
  <2>1. \A k \in Logins : Redeemable(k)' <=> Redeemable(k)
    BY <1>12 DEF Abandons, Redeemable
  <2>2. \A k \in Logins : Pending(k)' <=> Pending(k)
    BY <1>12 DEF Abandons, Pending, TypeOK, Exchanges
  <2>3. UNCHANGED Inside
    BY <1>12 DEF Abandons, Inside, Accepted, TypeOK
  <2> QED BY <1>12, <2>1, <2>2, <2>3, Unseen DEF Abandons
\* Time ends tickets nobody took, and stays.
<1>13. ASSUME Tick PROVE Promise!ANext
  <2>1. now' = now + 1 /\ UNCHANGED <<tokens, sessions, mint, pc>>
    BY <1>13 DEF Tick
  <2>2. \A k \in Logins : Redeemable(k)' => Redeemable(k)
    BY <2>1 DEF Redeemable, TypeOK, Time
  <2>3. \A k \in Logins : Pending(k)' <=> Pending(k)
    BY <2>1 DEF Pending
  <2>4. \A k \in Logins :
          Ticket'[k] = Ticket[k] \/ (Ticket[k] = "valid" /\ Ticket'[k] = "gone")
    BY <2>1, <2>2, <2>3 DEF Ticket
  <2>5. \A y \in Exchanges : Accepted(y)' => Accepted(y)
    BY <2>1 DEF Accepted, TypeOK, Time
  <2>6. \A y \in Exchanges :
          Inside'[y] = Inside[y] \/ (Inside[y] = "yes" /\ Inside'[y] = "left")
    BY <2>1, <2>5 DEF Inside
  <2> QED BY <2>4, <2>6, Endings DEF Promise!ANext
<1> QED
  BY <1>1, <1>2, <1>3, <1>4, <1>5, <1>6, <1>7, <1>9, <1>10, <1>11, <1>12, <1>13
     DEF Next, Promise!ANext

\* Every login lets one caller in at most, once, and never again.
THEOREM LoginsAdmitOnce == Spec => AdmitsOnce
BY PromiseInit, PromiseStep, Inductive, PTL DEF Spec, AdmitsOnce, Promise!ASpec
=============================================================================
