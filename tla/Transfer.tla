------------------------------- MODULE Transfer -------------------------------
(***************************************************************************)
(* A file going into a container: the SFTP handlers of                     *)
(* sftpserver/server.go over the calls of guesthelper/client.go, which the *)
(* helper carries out one at a time (proxpass-helper/ops.go).              *)
(*                                                                         *)
(* The client sends a file in pieces and may have many on their way; the   *)
(* SFTP library (external) hands them to its handlers in any order, a      *)
(* setstat after the writes the client has seen answered, and a close      *)
(* after all. Each handler is one or more calls of the helper, and a call  *)
(* that fails for the connection ends all: what it was to do may be done.  *)
(* An open file is a path, so whoever else acts on the path acts on it.    *)
(***************************************************************************)
EXTENDS Upload

CONSTANT Attributes  \* sets of attributes a client sends when all is written

Names == {AttributeOrder[i] : i \in DOMAIN AttributeOrder}

\* has: the pieces that are in it, the rest up to its end being zeros or gone;
\* upTo: its length in pieces; set: the attributes that are the client's.
Files == [exists : BOOLEAN, has : SUBSET All, upTo : 0..Pieces, set : SUBSET Names]
NoFile == [exists |-> FALSE, has |-> {}, upTo |-> 0, set |-> {}]

Init ==
    /\ file \in {NoFile, [exists |-> TRUE, has |-> {}, upTo |-> Pieces, set |-> {}]}
    /\ handle = "new"
    /\ piece = [p \in All |-> "unsent"]
    /\ sends \in Attributes
    /\ next = 1
    /\ helper = TRUE
    /\ meddled = FALSE

(***************************************************************************)
(* What the helper does to the file                                        *)
(***************************************************************************)
Top(a, b) == IF a > b THEN a ELSE b

Truncated(f, n) ==
    [f EXCEPT !.has = {p \in @ : p <= n}, !.upTo = n, !.set = @ \ {"times", "size"}]

\* Mutant: a piece at the start of the file truncates.
WritesFromStart(f, p, trunc) ==
    LET g == IF trunc \/ p = 1 THEN Truncated(f, 0) ELSE f
    IN  [g EXCEPT !.exists = TRUE, !.has = @ \union ({p} \intersect All),
                  !.upTo = Top(@, p), !.set = @ \ {"times"}]

\* OpWrite creates the file; it truncates only where it opens it.
write(f, p, trunc) ==
    LET g == IF trunc THEN Truncated(f, 0) ELSE f
    IN  [g EXCEPT !.exists = TRUE, !.has = @ \union ({p} \intersect All),
                  !.upTo = Top(@, p), !.set = @ \ {"times"}]

\* Attributes other than the size leave the time of modification alone.
Applied(f, a) ==
    [(IF a = "size" THEN Truncated(f, Pieces) ELSE f) EXCEPT !.set = @ \union {a}]

\* A call: it is answered; or it fails at the far end, which changes nothing; or
\* the connection fails before or after it was carried out.
Answers(after) == helper /\ file' = after /\ UNCHANGED helper
Refuses        == helper /\ UNCHANGED <<file, helper>>
Breaks(after)  == helper /\ helper' = FALSE /\ file' \in {file, after}

(***************************************************************************)
(* The handlers                                                            *)
(***************************************************************************)
\* Filewrite: whatever flags the file is opened with.
Filewrite ==
    /\ handle = "new"
    /\ \/ Answers(write(file, 0, TRUE)) /\ handle' = "open"
       \/ (Refuses \/ Breaks(write(file, 0, TRUE))) /\ handle' = "failed"
    /\ UNCHANGED <<piece, sends, next, meddled>>

ClientSends(p) ==
    /\ handle = "open"
    /\ piece[p] = "unsent"
    /\ piece' = [piece EXCEPT ![p] = "sent"]
    /\ UNCHANGED <<file, handle, sends, next, helper, meddled>>

\* One of the library's workers. On a dead link a write just fails.
WriteAt(p) ==
    /\ piece[p] = "sent"
    /\ \/ Answers(write(file, p, FALSE)) /\ piece' = [piece EXCEPT ![p] = "acked"]
       \/ /\ Refuses \/ Breaks(write(file, p, FALSE)) \/ (~helper /\ UNCHANGED <<file, helper>>)
          /\ piece' = [piece EXCEPT ![p] = "failed"]
    /\ UNCHANGED <<handle, sends, next, meddled>>

ClientSetsAttributes ==
    /\ handle = "open" /\ AllAcked
    /\ handle' = "setting"
    /\ UNCHANGED <<file, piece, sends, next, helper, meddled>>

\* Mutant: the times are set before the rest.
TimesFirst == <<"times", "size", "mode", "owner">>[next]

Attribute == AttributeOrder[next]

\* setstat: one call per attribute sent, until one fails. A file that is not there
\* refuses.
setstat ==
    /\ handle = "setting" /\ next \in DOMAIN AttributeOrder
    /\ \/ /\ Attribute \notin sends \/ file.exists
          /\ IF Attribute \in sends THEN Answers(Applied(file, Attribute))
             ELSE UNCHANGED <<file, helper>>
          /\ next' = next + 1
          /\ UNCHANGED handle
       \/ /\ Attribute \in sends
          /\ \/ Refuses
             \/ file.exists /\ Breaks(Applied(file, Attribute))
             \/ ~helper /\ UNCHANGED <<file, helper>>
          /\ handle' = "failed"
          /\ UNCHANGED next
    /\ UNCHANGED <<piece, sends, meddled>>

ClientCloses ==
    /\ \/ handle = "open" /\ \A p \in All : piece[p] # "sent"
       \/ handle = "setting" /\ next \notin DOMAIN AttributeOrder
    /\ handle' = "closed"
    /\ UNCHANGED <<file, piece, sends, next, helper, meddled>>

\* Someone else renames or removes what the path leads to, cuts it, or uploads
\* to it as well.
SomeoneMeddles ==
    /\ file.exists /\ ~meddled
    /\ file' \in {NoFile, Truncated(file, 0), write(file, 1, TRUE)}
    /\ meddled' = TRUE
    /\ UNCHANGED <<handle, piece, sends, next, helper>>

Next ==
    \/ Filewrite
    \/ \E p \in All : ClientSends(p) \/ WriteAt(p)
    \/ ClientSetsAttributes
    \/ setstat
    \/ ClientCloses
    \/ SomeoneMeddles

Spec == Init /\ [][Next]_uploadVars

(***************************************************************************)
(* Properties                                                              *)
(***************************************************************************)
TypeOK ==
    /\ file \in Files
    /\ handle \in {"new", "open", "setting", "closed", "failed"}
    /\ piece \in [All -> {"unsent", "sent", "acked", "failed"}]
    /\ sends \in SUBSET Names
    /\ next \in 1..(Len(AttributeOrder) + 1)
    /\ helper \in BOOLEAN /\ meddled \in BOOLEAN
=============================================================================
