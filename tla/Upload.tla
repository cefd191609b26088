-------------------------------- MODULE Upload --------------------------------
(***************************************************************************)
(* The state of a file going into a container and of the client that sends *)
(* it, and what is claimed of them. How it gets there is Transfer.         *)
(***************************************************************************)
EXTENDS Naturals, Sequences

CONSTANT Pieces  \* the file is pieces 1..Pieces, in the order of their offsets

VARIABLES
    file,     \* what the path leads to in the container
    handle,   \* the client's: "new", "open", "setting", "closed" or "failed"
    piece,    \* per piece: "unsent", "sent", "acked" or "failed"
    sends,    \* the attributes this client sends
    next,     \* the attribute setstat is at
    helper,   \* the helper answers
    meddled   \* someone else has acted on the path

uploadVars == <<file, handle, piece, sends, next, helper, meddled>>

All == 1..Pieces

\* The order in which setstat applies them.
AttributeOrder == <<"size", "mode", "owner", "times">>

AllAcked == \A p \in All : piece[p] = "acked"

\* A piece that was answered stays in the file, in whatever order the rest
\* arrives and however the transfer ends, unless somebody else acts on the path;
\* so a transfer answered to the end is the whole file and nothing of the old one.
AnsweredPiecesStay ==
    ~meddled =>
      /\ \A p \in All : piece[p] = "acked" => p \in file.has
      /\ handle \in {"setting", "closed"} /\ AllAcked => file.has = All /\ file.upTo = Pieces

\* The attributes a client sent are the file's in the end, its times included;
\* and where one failed, those before it are and no later one is.
AttributesHold ==
    (handle \in {"setting", "closed", "failed"} /\ AllAcked /\ ~meddled /\ helper) =>
      file.set = {AttributeOrder[i] : i \in 1..(next - 1)} \intersect sends
=============================================================================
