----------------------------- MODULE Admission ------------------------------
(***************************************************************************)
(* What the tokens of a login promise, time left out: a login gets one     *)
(* ticket, the ticket lets one caller in, once, and who is out stays out.  *)
(***************************************************************************)
CONSTANTS Logins, Callers

VARIABLES
  ticket,    (* of each login: "none", "valid" or "gone"                     *)
  inside     (* of each login and caller: "no", "yes" or "left"              *)

avars == <<ticket, inside>>

AInit ==
  /\ ticket = [l \in Logins |-> "none"]
  /\ inside = [i \in Logins \X Callers |-> "no"]

\* A ticket that took too long to print, or that could not be printed, is
\* gone from the start.
Issue(l) ==
  /\ ticket[l] = "none"
  /\ \E t \in {"valid", "gone"} : ticket' = [ticket EXCEPT ![l] = t]
  /\ UNCHANGED inside

\* As with the ticket: whoever took too long to come in has left again.
Admit(l, c) ==
  /\ ticket[l] = "valid"
  /\ \A d \in Callers : inside[<<l, d>>] = "no"
  /\ ticket' = [ticket EXCEPT ![l] = "gone"]
  /\ \E i \in {"yes", "left"} : inside' = [inside EXCEPT ![<<l, c>>] = i]

\* Tickets lapse and callers leave, several at a time when time passes.
End(ls, ins) ==
  /\ \A l \in ls : ticket[l] = "valid"
  /\ \A i \in ins : inside[i] = "yes"
  /\ ticket' = [l \in Logins |-> IF l \in ls THEN "gone" ELSE ticket[l]]
  /\ inside' = [i \in Logins \X Callers |-> IF i \in ins THEN "left" ELSE inside[i]]

ANext ==
  \/ \E l \in Logins : Issue(l) \/ \E c \in Callers : Admit(l, c)
  \/ \E ls \in SUBSET Logins, ins \in SUBSET (Logins \X Callers) : End(ls, ins)

ASpec == AInit /\ [][ANext]_avars
=============================================================================
