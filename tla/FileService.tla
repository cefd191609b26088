---------------------------- MODULE FileService -----------------------------
(***************************************************************************)
(* What one transfer session promises the SFTP server above it.            *)
(*                                                                         *)
(* A call takes effect at most once. A call that is answered has taken     *)
(* effect; a call that is refused never does. At most one call is left in  *)
(* doubt, failed without an answer, and from then on nothing but that call *)
(* can still reach the filesystem.                                         *)
(***************************************************************************)
CONSTANT Calls

VARIABLES
  outcome,   (* what the caller knows of a call                              *)
  applied    (* the calls that have taken effect                             *)

svars == <<outcome, applied>>

Outcomes == {"new", "open", "answered", "failed", "refused"}

SInit ==
  /\ outcome = [c \in Calls |-> "new"]
  /\ applied = {}

InDoubt == {c \in Calls : outcome[c] = "failed"}

Becomes(c, old, new) ==
  /\ outcome[c] = old
  /\ outcome' = [outcome EXCEPT ![c] = new]
  /\ UNCHANGED applied

Invoke(c) == Becomes(c, "new", "open")

Apply(c) ==
  /\ outcome[c] \in {"open", "failed"}
  /\ c \notin applied
  /\ InDoubt \subseteq {c}
  /\ applied' = applied \union {c}
  /\ UNCHANGED outcome

Answer(c) == c \in applied /\ Becomes(c, "open", "answered")

Fail(c) == InDoubt = {} /\ Becomes(c, "open", "failed")

Refuse(c) == c \notin applied /\ InDoubt # {} /\ Becomes(c, "open", "refused")

SNext ==
  \E c \in Calls : Invoke(c) \/ Apply(c) \/ Answer(c) \/ Fail(c) \/ Refuse(c)

SSpec == SInit /\ [][SNext]_svars
=============================================================================
