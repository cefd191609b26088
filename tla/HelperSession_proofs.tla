------------------------ MODULE HelperSession_proofs ------------------------
(***************************************************************************)
(* For any number of calls: replies go to the caller that asked, a helper  *)
(* of another version is never put to work, the session implements         *)
(* FileService, and, where every file operation returns, each call does    *)
(* and the helper leaves when the session is over. Last, what staging the  *)
(* helper guarantees where no two transfers do it at once.                 *)
(*                                                                         *)
(* The argument is that one call at most is out (sent, or failed and in    *)
(* doubt), that whatever the stream and the helper hold is that call, and  *)
(* that they hold it once.                                                 *)
(***************************************************************************)
EXTENDS HelperSession, Staging, TLAPS

Out(c) == call[c] \in {"sent", "failed"}

\* Client.mu lets one call out; closed keeps the next one in after a failure.
OneOut ==
  /\ \A c, d \in Calls : Out(c) /\ Out(d) => c = d
  /\ \A c \in Calls : (call[c] = "failed" => closed) /\ (call[c] = "sent" => ~closed)
  /\ closed /\ Running => \E c \in Calls : call[c] = "failed"

\* Where the call that is out can be.
UpHolds      == up = <<>> \/ \E m \in Messages : up = <<m>> /\ (IF m \in Calls THEN Out(m) ELSE closed)
DownHolds    == down = <<>> \/ \E c \in Calls : down = <<c>> /\ Out(c) /\ c \in done
InboxHolds   == inbox \in Calls => Out(inbox)
WorkingHolds == working \in Calls => Out(working)

\* It is in one place.
HeldOnce ==
  /\ up # <<>> => inbox \notin Calls /\ working = None /\ down = <<>>
  /\ inbox \in Calls => working = None /\ down = <<>>
  /\ working # None => down = <<>>

\* What has been carried out was sent.
DoneWasOut == \A c \in done : call[c] \in {"sent", "failed", "answered"}

Handshaken ==
  ~match => /\ peer # "serving"
            /\ \A c \in Ops : call[c] = "new"

Held == UpHolds /\ DownHolds /\ InboxHolds /\ WorkingHolds /\ HeldOnce

IInv == TypeOK /\ OneOut /\ Held /\ DoneWasOut /\ Handshaken /\ ReplyIsOwn

-----------------------------------------------------------------------------
(* Streams that hold one message at most.                                    *)

LEMMA OneMessage ==
  ASSUME NEW S, NEW m \in S
  PROVE  /\ Append(<<>>, m) = <<m>>
         /\ <<m>> # <<>>
         /\ Head(<<m>>) = m
         /\ Tail(<<m>>) = <<>>
         /\ <<m>> \in Seq(S)
         /\ <<>> \in Seq(S)
  OBVIOUS

LEMMA InitHolds == Init => IInv
BY HelperAssumption, OneMessage
DEF Init, IInv, TypeOK, OneOut, Held, UpHolds, DownHolds, InboxHolds, WorkingHolds,
    HeldOnce, DoneWasOut, Handshaken, ReplyIsOwn, Out, Running, Calls, Messages, Settled

\* Nothing is out before a request is sent; then the stream and the helper
\* are empty but for a quit, and that only when the client is closed.
LEMMA NothingHeld ==
  ASSUME IInv, ~closed, ~Locked
  PROVE  /\ \A c \in Calls : ~Out(c)
         /\ up = <<>> /\ down = <<>>
         /\ inbox \notin Calls /\ working = None
<1>1. \A c \in Calls : ~Out(c)
  BY DEF IInv, OneOut, Out, Locked
<1>2. up = <<>> /\ down = <<>>
  BY <1>1 DEF IInv, Held, UpHolds, DownHolds
<1>3. inbox \notin Calls /\ working = None
  BY <1>1 DEF IInv, Held, InboxHolds, WorkingHolds, TypeOK
<1> QED BY <1>1, <1>2, <1>3

\* Steps of the client that leave the stream alone.
LEMMA InvokeHolds == ASSUME NEW c \in Calls, IInv, Invoke(c) PROVE IInv'
<1> USE DEF IInv, Invoke, Moves, helperVars
<1>1. TypeOK'
  BY DEF TypeOK
<1>2. \A d \in Calls : Out(d)' <=> Out(d)
  BY DEF Out, TypeOK
<1>3. OneOut'
  BY <1>2 DEF OneOut, Out, TypeOK, Running
<1>4. Held'
  BY <1>2 DEF Held, UpHolds, DownHolds, InboxHolds, WorkingHolds, HeldOnce, TypeOK
<1>5. DoneWasOut'
  BY DEF DoneWasOut, TypeOK
<1>6. Handshaken'
  BY HelperAssumption DEF Handshaken, Calls, TypeOK
<1>7. ReplyIsOwn'
  BY DEF ReplyIsOwn
<1> QED BY <1>1, <1>3, <1>4, <1>5, <1>6, <1>7

LEMMA RefuseHolds == ASSUME NEW c \in Calls, IInv, Refuse(c) PROVE IInv'
<1> USE DEF IInv, Refuse, Moves, helperVars
<1>1. TypeOK'
  BY DEF TypeOK, Settled
<1>2. \A d \in Calls : Out(d)' <=> Out(d)
  BY DEF Out, TypeOK
<1>3. OneOut'
  BY <1>2 DEF OneOut, Out, TypeOK, Running
<1>4. Held'
  BY <1>2 DEF Held, UpHolds, DownHolds, InboxHolds, WorkingHolds, HeldOnce, TypeOK
<1>5. DoneWasOut'
  BY DEF DoneWasOut, TypeOK
<1>6. Handshaken'
  BY HelperAssumption DEF Handshaken, Calls, TypeOK
<1>7. ReplyIsOwn'
  BY DEF ReplyIsOwn
<1> QED BY <1>1, <1>3, <1>4, <1>5, <1>6, <1>7

LEMMA SendsHolds == ASSUME NEW c \in Calls, IInv, Sends(c) PROVE IInv'
<1> USE DEF IInv, Sends, Moves, helperVars
<1>0. /\ \A d \in Calls : ~Out(d)
      /\ up = <<>> /\ down = <<>>
      /\ inbox \notin Calls /\ working = None
  BY NothingHeld
<1>1. up' = <<>> \/ up' = <<c>>
  BY <1>0, OneMessage DEF Written
<1>2. \A d \in Calls : Out(d)' <=> d = c
  BY <1>0 DEF Out, TypeOK
<1>3. TypeOK'
  BY <1>1, OneMessage DEF TypeOK, Messages
<1>4. OneOut'
  BY <1>0, <1>2 DEF OneOut, Out, TypeOK, Running
<1>5. Held'
  BY <1>0, <1>1, <1>2
  DEF Held, UpHolds, DownHolds, InboxHolds, WorkingHolds, HeldOnce, Messages, TypeOK
<1>6. DoneWasOut'
  BY DEF DoneWasOut, TypeOK
<1>7. Handshaken'
  BY HelperAssumption DEF Handshaken, Calls, TypeOK
<1>8. ReplyIsOwn'
  BY DEF ReplyIsOwn
<1> QED BY <1>3, <1>4, <1>5, <1>6, <1>7, <1>8

LEMMA SendFailsHolds == ASSUME NEW c \in Calls, IInv, SendFails(c) PROVE IInv'
<1> USE DEF IInv, SendFails, Moves, helperVars
<1>0. /\ \A d \in Calls : ~Out(d)
      /\ up = <<>> /\ down = <<>>
      /\ inbox \notin Calls /\ working = None
  BY NothingHeld
<1>2. \A d \in Calls : Out(d)' <=> d = c
  BY <1>0 DEF Out, TypeOK
<1>3. TypeOK'
  BY DEF TypeOK, Settled
<1>4. OneOut'
  BY <1>0, <1>2 DEF OneOut, Out, TypeOK, Running
<1>5. Held'
  BY <1>0, <1>2
  DEF Held, UpHolds, DownHolds, InboxHolds, WorkingHolds, HeldOnce, TypeOK
<1>6. DoneWasOut'
  BY DEF DoneWasOut, TypeOK
<1>7. Handshaken'
  BY HelperAssumption DEF Handshaken, Calls, TypeOK
<1>8. ReplyIsOwn'
  BY DEF ReplyIsOwn
<1> QED BY <1>3, <1>4, <1>5, <1>6, <1>7, <1>8

\* The reply at hand is to the call that waits, and was carried out.
LEMMA ReplyAtHand ==
  ASSUME NEW c \in Calls, IInv, Receives(c)
  PROVE  down = <<c>> /\ c \in done
<1>1. PICK d \in Calls : down = <<d>> /\ Out(d) /\ d \in done
  BY DEF IInv, Held, DownHolds, Receives
<1>2. d = c
  BY <1>1 DEF IInv, OneOut, Out, Receives, Moves
<1> QED BY <1>1, <1>2

LEMMA ReceivesHolds == ASSUME NEW c \in Calls, IInv, Receives(c) PROVE IInv'
<1> USE DEF IInv, Receives, Moves, helperVars
<1>0. /\ down = <<c>> /\ down' = <<>>
      /\ up = <<>> /\ inbox \notin Calls /\ working = None
      /\ c \in done
  BY ReplyAtHand, OneMessage DEF Held, HeldOnce
<1>1. got' = [got EXCEPT ![c] = c]
  BY <1>0, OneMessage
<1>2. \A d \in Calls : ~Out(d)'
  BY DEF Out, OneOut, TypeOK
<1>3. TypeOK'
  BY <1>0, <1>1, OneMessage DEF TypeOK, Settled
<1>4. OneOut'
  BY <1>2 DEF OneOut, Out, TypeOK, Running
<1>5. Held'
  BY <1>0, HelperAssumption
  DEF Held, UpHolds, DownHolds, InboxHolds, WorkingHolds, HeldOnce, TypeOK, Messages
<1>6. DoneWasOut'
  BY DEF DoneWasOut, TypeOK
<1>7. Handshaken'
  BY HelperAssumption DEF Handshaken, Calls, TypeOK
<1>8. ReplyIsOwn'
  BY <1>1 DEF ReplyIsOwn, TypeOK
<1> QED BY <1>3, <1>4, <1>5, <1>6, <1>7, <1>8

LEMMA ReadFailsHolds == ASSUME NEW c \in Calls, IInv, ReadFails(c) PROVE IInv'
<1> USE DEF IInv, ReadFails, Moves, helperVars
<1>2. \A d \in Calls : Out(d)' <=> Out(d)
  BY DEF Out, TypeOK
<1>3. TypeOK'
  BY DEF TypeOK, Settled
<1>4. OneOut'
  BY <1>2 DEF OneOut, Out, TypeOK, Running
<1>5. Held'
  BY <1>2
  DEF Held, UpHolds, DownHolds, InboxHolds, WorkingHolds, HeldOnce, TypeOK
<1>6. DoneWasOut'
  BY DEF DoneWasOut, TypeOK
<1>7. Handshaken'
  BY HelperAssumption DEF Handshaken, Calls, TypeOK
<1>8. ReplyIsOwn'
  BY DEF ReplyIsOwn
<1> QED BY <1>3, <1>4, <1>5, <1>6, <1>7, <1>8

\* What the session process does without a call: the end of the handshake, the
\* end of the session, the loss of the connection.
LEMMA SessionHolds ==
  ASSUME IInv, HandshakeEnds \/ Close \/ Cut \/ Dies
  PROVE  IInv'
<1> USE DEF IInv, clientVars, helperVars
<1>1. \A d \in Calls : Out(d)' <=> Out(d)
  BY DEF Out, HandshakeEnds, Close, Cut, Dies
<1>2. CASE HandshakeEnds
  BY <1>1, <1>2, HelperAssumption
  DEF HandshakeEnds, TypeOK, OneOut, Running, Held, UpHolds, DownHolds, InboxHolds,
      WorkingHolds, HeldOnce, DoneWasOut, Handshaken, ReplyIsOwn
<1>3. CASE Close
  <2> USE <1>3 DEF Close
  <2>1. \/ up' = up
        \/ /\ ~closed /\ up' = <<Quit>> /\ up = <<>> /\ down = <<>>
           /\ inbox \notin Calls /\ working = None
    <3>1. CASE closed
      BY <3>1
    <3>2. CASE ~closed
      <4>1. ~Locked
        BY DEF Locked
      <4>2. /\ up = <<>> /\ down = <<>>
            /\ inbox \notin Calls /\ working = None
        BY <3>2, <4>1, NothingHeld
      <4> QED BY <3>2, <4>2, OneMessage DEF Written
    <3> QED BY <3>1, <3>2
  <2>2. TypeOK'
    BY <2>1, OneMessage DEF TypeOK, Messages
  <2>3. OneOut'
    BY <1>1 DEF OneOut, Out, Running
  <2>4. Held'
    BY <1>1, <2>1, HelperAssumption, OneMessage
    DEF Held, UpHolds, DownHolds, InboxHolds, WorkingHolds, HeldOnce, Messages, TypeOK
  <2>5. DoneWasOut' /\ Handshaken' /\ ReplyIsOwn'
    BY DEF DoneWasOut, Handshaken, ReplyIsOwn
  <2> QED BY <2>2, <2>3, <2>4, <2>5
<1>4. CASE Cut
  BY <1>1, <1>4
  DEF Cut, TypeOK, OneOut, Running, Held, UpHolds, DownHolds, InboxHolds,
      WorkingHolds, HeldOnce, DoneWasOut, Handshaken, ReplyIsOwn
<1>5. CASE Dies
  BY <1>1, <1>5
  DEF Dies, TypeOK, OneOut, Running, Held, UpHolds, DownHolds, InboxHolds,
      WorkingHolds, HeldOnce, DoneWasOut, Handshaken, ReplyIsOwn
<1> QED BY <1>2, <1>3, <1>4, <1>5

\* The helper passes what it holds on, or forgets it.
LEMMA HelperHolds ==
  ASSUME IInv, Helper \/ Killed
  PROVE  IInv'
<1> USE DEF IInv, clientVars, Out
<1>1. /\ call' = call /\ got' = got /\ closed' = closed /\ peer' = peer /\ match' = match
  BY DEF Helper, Killed, ReadsRequest, ReadsEof, Exits, IdleExit, Leaves, Starts, Acts,
         Replies, ReplyFails
<1>2. OneOut' /\ ReplyIsOwn'
  BY <1>1 DEF OneOut, Running, ReplyIsOwn
<1>3. Handshaken'
  BY <1>1 DEF Handshaken
<1>4. CASE ReadsRequest
  <2> USE <1>4 DEF ReadsRequest
  <2>1. PICK m \in Messages : up = <<m>> /\ (IF m \in Calls THEN Out(m) ELSE closed)
    BY DEF Held, UpHolds
  <2>2. inbox' = m /\ up' = <<>>
    BY <2>1, OneMessage
  <2>3. TypeOK'
    BY <1>1, <2>2, OneMessage DEF TypeOK
  <2>4. Held'
    BY <1>1, <2>1, <2>2
    DEF Held, UpHolds, DownHolds, InboxHolds, WorkingHolds, HeldOnce
  <2>5. DoneWasOut'
    BY <1>1 DEF DoneWasOut
  <2> QED BY <1>2, <1>3, <2>3, <2>4, <2>5
<1>5. CASE ReadsEof
  <2> USE <1>5 DEF ReadsEof
  <2>1. TypeOK'
    BY <1>1 DEF TypeOK
  <2>2. Held'
    BY <1>1, HelperAssumption
    DEF Held, UpHolds, DownHolds, InboxHolds, WorkingHolds, HeldOnce, Messages
  <2>3. DoneWasOut'
    BY <1>1 DEF DoneWasOut
  <2> QED BY <1>2, <1>3, <2>1, <2>2, <2>3
<1>6. CASE Exits \/ IdleExit \/ ReplyFails \/ Killed
  <2> USE <1>6 DEF Exits, IdleExit, ReplyFails, Killed, Leaves
  <2>1. TypeOK'
    BY <1>1 DEF TypeOK
  <2>2. Held'
    BY <1>1, HelperAssumption
    DEF Held, UpHolds, DownHolds, InboxHolds, WorkingHolds, HeldOnce, Messages
  <2>3. DoneWasOut'
    BY <1>1 DEF DoneWasOut
  <2> QED BY <1>2, <1>3, <2>1, <2>2, <2>3
<1>7. CASE Starts
  <2> USE <1>7 DEF Starts
  <2>1. TypeOK'
    BY <1>1 DEF TypeOK
  <2>2. Held'
    BY <1>1, HelperAssumption
    DEF Held, UpHolds, DownHolds, InboxHolds, WorkingHolds, HeldOnce, Messages
  <2>3. DoneWasOut'
    BY <1>1 DEF DoneWasOut
  <2> QED BY <1>2, <1>3, <2>1, <2>2, <2>3
<1>8. CASE Acts
  <2> USE <1>8 DEF Acts
  <2>1. TypeOK'
    BY <1>1 DEF TypeOK
  <2>2. Held'
    BY <1>1 DEF Held, UpHolds, DownHolds, InboxHolds, WorkingHolds, HeldOnce
  <2>3. DoneWasOut'
    BY <1>1 DEF DoneWasOut, Held, WorkingHolds
  <2> QED BY <1>2, <1>3, <2>1, <2>2, <2>3
<1>9. CASE Replies
  <2> USE <1>9 DEF Replies
  <2>1. working \in Calls /\ working \in done
    BY DEF TypeOK
  <2>2. /\ down' = <<>> \/ down' = <<working>>
        /\ up = <<>> /\ inbox \notin Calls
    <3>1. working # None
      BY <2>1, HelperAssumption DEF Messages
    <3> QED BY <2>1, <3>1, OneMessage DEF Held, HeldOnce
  <2>3. TypeOK'
    BY <1>1, <2>1, <2>2, OneMessage DEF TypeOK
  <2>4. Held'
    BY <1>1, <2>1, <2>2, HelperAssumption
    DEF Held, UpHolds, DownHolds, InboxHolds, WorkingHolds, HeldOnce, Messages
  <2>5. DoneWasOut'
    BY <1>1 DEF DoneWasOut
  <2> QED BY <1>2, <1>3, <2>3, <2>4, <2>5
<1> QED BY <1>4, <1>5, <1>6, <1>7, <1>8, <1>9 DEF Helper

LEMMA StepHolds == IInv /\ [Next]_vars => IInv'
<1> SUFFICES ASSUME IInv, [Next]_vars PROVE IInv'
  OBVIOUS
<1>1. CASE \E c \in Calls : Client(c)
  BY <1>1, InvokeHolds, RefuseHolds, SendsHolds, SendFailsHolds, ReceivesHolds, ReadFailsHolds
  DEF Client
<1>2. CASE HandshakeEnds \/ Close \/ Cut \/ Dies
  BY <1>2, SessionHolds
<1>3. CASE Helper \/ Killed
  BY <1>3, HelperHolds
<1>4. CASE UNCHANGED vars
  BY <1>4
  DEF vars, clientVars, helperVars, IInv, TypeOK, OneOut, Running, Held, UpHolds, DownHolds,
      InboxHolds, WorkingHolds, HeldOnce, DoneWasOut, Handshaken, ReplyIsOwn, Out
<1> QED BY <1>1, <1>2, <1>3, <1>4 DEF Next

LEMMA Inductive == Spec => []IInv
<1> QED BY InitHolds, StepHolds, PTL DEF Spec

-----------------------------------------------------------------------------
(* The theorems.                                                             *)

\* Every variable keeps its type: the helper is never handed anything but a
\* request to dispatch, the quit message in particular.
THEOREM TypeCorrect == Spec => []TypeOK
<1>1. IInv => TypeOK
  BY DEF IInv
<1> QED BY <1>1, Inductive, PTL

\* Whatever is called at the same time and whatever breaks, a caller is given
\* the reply to its own request although replies do not name one.
THEOREM RepliesAreOwn == Spec => []ReplyIsOwn
<1>1. IInv => ReplyIsOwn
  BY DEF IInv
<1> QED BY <1>1, Inductive, PTL

\* A helper that speaks another version of the protocol never touches a file.
THEOREM VersionsAgree == Spec => []MismatchNeverServes
<1>1. IInv => MismatchNeverServes
  <2> SUFFICES ASSUME IInv, ~match, NEW c \in done PROVE c = Hello
    BY DEF MismatchNeverServes
  <2>1. c \in Calls /\ call[c] # "new"
    BY DEF IInv, TypeOK, DoneWasOut
  <2> QED BY <2>1 DEF IInv, Handshaken, Calls
<1> QED BY <1>1, Inductive, PTL

\* What the callers know, as the service sees it.
Seen == [c \in Calls |-> IF call[c] \in {"queued", "sent"} THEN "open" ELSE call[c]]

USE DEF Service!Becomes, Service!Invoke, Service!Apply, Service!Answer, Service!Fail,
        Service!Refuse, Service!InDoubt

LEMMA InitRefines == Init => Service!SInit
BY DEF Init, Service!SInit

\* A call that moves is seen to move, and no other.
LEMMA SeenMoves ==
  ASSUME TypeOK, NEW c \in Calls, NEW from, NEW to, Moves(c, from, to),
         to \in {"queued", "sent"} \union Settled
  PROVE  /\ Seen[c] = IF from \in {"queued", "sent"} THEN "open" ELSE from
         /\ Seen' = [Seen EXCEPT ![c] = IF to \in {"queued", "sent"} THEN "open" ELSE to]
BY DEF TypeOK, Moves, Seen, Settled

LEMMA ClientRefines ==
  ASSUME IInv, NEW c \in Calls, Client(c)
  PROVE  Service!SNext \/ UNCHANGED <<Seen, done>>
<1> USE DEF IInv
<1>1. {d \in Calls : Seen[d] = "failed"} = {d \in Calls : call[d] = "failed"}
  BY DEF Seen
<1>2. CASE Invoke(c)
  <2>1. Seen[c] = "new" /\ Seen' = [Seen EXCEPT ![c] = "open"] /\ done' = done
    BY <1>2, SeenMoves DEF Invoke, helperVars
  <2> QED BY <2>1 DEF Service!SNext, Seen
<1>3. CASE Refuse(c)
  <2>1. Seen[c] = "open" /\ Seen' = [Seen EXCEPT ![c] = "refused"] /\ done' = done
    BY <1>3, SeenMoves DEF Refuse, helperVars, Settled
  <2>2. c \notin done
    BY <1>3 DEF Refuse, Moves, DoneWasOut
  <2>3. \E d \in Calls : call[d] = "failed"
    BY <1>3 DEF Refuse, Moves, OneOut
  <2> QED BY <1>1, <2>1, <2>2, <2>3 DEF Service!SNext, Seen
<1>4. CASE Sends(c)
  <2>1. Seen[c] = "open" /\ Seen' = [Seen EXCEPT ![c] = "open"] /\ done' = done
    BY <1>4, SeenMoves DEF Sends, helperVars
  <2> QED BY <2>1 DEF Seen
<1>5. CASE SendFails(c) \/ ReadFails(c)
  <2>1. Seen[c] = "open" /\ Seen' = [Seen EXCEPT ![c] = "failed"] /\ done' = done
    BY <1>5, SeenMoves DEF SendFails, ReadFails, helperVars, Settled
  <2>2. \A d \in Calls : call[d] # "failed"
    BY <1>5 DEF SendFails, ReadFails, Moves, OneOut
  <2> QED BY <1>1, <2>1, <2>2 DEF Service!SNext, Seen
<1>6. CASE Receives(c)
  <2>1. Seen[c] = "open" /\ Seen' = [Seen EXCEPT ![c] = "answered"] /\ done' = done
    BY <1>6, SeenMoves DEF Receives, helperVars, Settled
  <2>2. c \in done
    BY <1>6, ReplyAtHand
  <2> QED BY <2>1, <2>2 DEF Service!SNext, Seen
<1> QED BY <1>2, <1>3, <1>4, <1>5, <1>6 DEF Client

LEMMA ActsRefines ==
  ASSUME IInv, Acts
  PROVE  Service!SNext
<1> USE DEF IInv
<1>1. working \in Calls /\ working \notin done /\ Out(working)
  BY DEF Acts, Held, WorkingHolds
<1>2. Seen[working] \in {"open", "failed"}
  BY <1>1 DEF Out, Seen
<1>3. {d \in Calls : Seen[d] = "failed"} \subseteq {working}
  BY <1>1 DEF OneOut, Out, Seen
<1>4. Seen' = Seen /\ done' = done \union {working}
  BY DEF Acts, clientVars, Seen
<1> QED BY <1>1, <1>2, <1>3, <1>4 DEF Service!SNext, Seen

LEMMA StepRefines == IInv /\ [Next]_vars => [Service!SNext]_<<Seen, done>>
<1> SUFFICES ASSUME IInv, [Next]_vars PROVE Service!SNext \/ UNCHANGED <<Seen, done>>
  OBVIOUS
<1>1. CASE \E c \in Calls : Client(c)
  BY <1>1, ClientRefines
<1>2. CASE Acts
  BY <1>2, ActsRefines
<1>3. CASE \/ HandshakeEnds \/ Close \/ Cut \/ Dies \/ Killed \/ UNCHANGED vars
           \/ ReadsRequest \/ ReadsEof \/ Exits \/ IdleExit \/ Starts \/ Replies \/ ReplyFails
  <2>1. call' = call /\ done' = done
    BY <1>3
    DEF HandshakeEnds, Close, Cut, Dies, Killed, vars, clientVars, helperVars, ReadsRequest,
        ReadsEof, Exits, IdleExit, Starts, Replies, ReplyFails, Leaves
  <2> QED BY <2>1 DEF Seen
<1> QED BY <1>1, <1>2, <1>3 DEF Next, Helper

\* The session is the service the SFTP server takes it for: an answered call
\* has taken effect, a refused one never does, one call at most is in doubt
\* and nothing takes effect after it but itself.
THEOREM SessionIsService == Spec => ImplementsService
<1>1. Init => Service!SInit
  BY InitRefines
<1>2. IInv /\ [Next]_vars => [Service!SNext]_(Service!svars)
  BY StepRefines DEF Service!svars, Seen
<1> QED BY <1>1, <1>2, Inductive, PTL DEF Spec, ImplementsService, Service!SSpec

-----------------------------------------------------------------------------
(***************************************************************************)
(* What must happen. The weak and strong fairness the theorems start from  *)
(* speak of actions that are ENABLED, and the provers know that operator   *)
(* by name only. So the one fact about it they need, that an action can be *)
(* taken where its guard holds, is a hypothesis, Ready and CallsReady: the *)
(* guards below are those of the actions, whose other conjuncts all give a *)
(* primed variable a value.                                                *)
(***************************************************************************)

\* The helper can go on: give up waiting, dispatch, answer.
Ready ==
  /\ alive /\ working = None => ENABLED <<IdleExit>>_vars
  /\ alive /\ working \in Calls \ done => ENABLED <<Acts>>_vars
  /\ alive /\ working \in done => ENABLED <<Replies \/ ReplyFails>>_vars

\* What a caller does once it has asked for the mutex.
Turn(c) == Refuse(c) \/ Sends(c) \/ SendFails(c) \/ Receives(c) \/ ReadFails(c)

ReadyCall(c) ==
  /\ Running /\ call[c] = "queued" /\ ~Locked => ENABLED <<Turn(c)>>_vars
  /\ Running /\ call[c] = "sent" /\ (down # <<>> \/ ~alive \/ ~link) => ENABLED <<Turn(c)>>_vars

\* A mutex that is free again and again is handed to every caller in the end:
\* after a millisecond of waiting sync.Mutex goes to the longest waiter. Weak
\* fairness says this of a bounded number of calls only.
HandedOver(c) == SF_vars(Turn(c))

CallsReady == \A c \in Calls : ReadyCall(c)
MutexIsFair == \A c \in Calls : HandedOver(c)

\* The session is over, and with it the arrival of requests.
Over == peer \in {"ended", "dead"}

\* The last request has not been dispatched.
Waiting == inbox \in Calls \/ \E m \in Calls : up = <<m>>

\* The way down of a helper that is still there: it may have the last request
\* before it, in its hands or behind it, and then waits for the timer.
Last   == Over /\ alive /\ working = None /\ ~Waiting
Acted  == Over /\ alive /\ working \in done
Acting == Over /\ alive /\ working \in Calls \ done
More   == Over /\ alive /\ working = None /\ Waiting

LEMMA NoneIsNoCall == None \notin Calls
BY HelperAssumption DEF Messages

\* There is no other place to be.
LEMMA Rungs == IInv /\ Over => ~alive \/ Last \/ Acted \/ Acting \/ More
BY DEF IInv, TypeOK, Last, Acted, Acting, More

LEMMA OverStays == Over /\ [Next]_vars => Over'
BY DEF Over, Next, Client, Moves, Running, Invoke, Refuse, Sends, SendFails, Receives,
       ReadFails, HandshakeEnds, Close, Cut, Dies, Helper, ReadsRequest, ReadsEof, Leaves,
       Exits, IdleExit, Starts, Acts, Replies, ReplyFails, Killed, vars, clientVars

LEMMA OverSteps ==
  ASSUME Over, [Next]_vars
  PROVE  Cut \/ Helper \/ Killed \/ UNCHANGED vars
BY DEF Over, Next, Client, Moves, Running, Invoke, Refuse, Sends, SendFails, Receives,
       ReadFails, HandshakeEnds, Close, Dies

\* Each place leads to the ones below it only.
LEMMA LastStep == ASSUME IInv, Last, [Next]_vars PROVE Last' \/ ~alive'
<1> USE OverStays, NoneIsNoCall DEF Last, IInv, TypeOK
<1>1. CASE Cut \/ UNCHANGED vars
  BY <1>1 DEF Cut, vars, clientVars, helperVars, Waiting
<1>2. CASE ReadsRequest
  BY <1>2, OneMessage DEF ReadsRequest, clientVars, Waiting, Held, UpHolds
<1>3. CASE ReadsEof
  BY <1>3, HelperAssumption DEF ReadsEof, clientVars, Waiting, Messages
<1>4. CASE Exits \/ IdleExit \/ ReplyFails \/ Killed
  BY <1>4 DEF Exits, IdleExit, ReplyFails, Killed, Leaves
<1>5. CASE Starts \/ Acts \/ Replies
  BY <1>5 DEF Starts, Acts, Replies, Waiting
<1> QED BY <1>1, <1>2, <1>3, <1>4, <1>5, OverSteps DEF Helper

LEMMA ActedStep == ASSUME IInv, Acted, [Next]_vars PROVE Acted' \/ Last' \/ ~alive'
<1> USE NoneIsNoCall DEF Acted, IInv, TypeOK
<1>0. Over'
  BY OverStays
<1>1. CASE Cut \/ ReadsRequest \/ ReadsEof \/ UNCHANGED vars
  <2>1. UNCHANGED <<alive, working, done>>
    BY <1>1 DEF Cut, ReadsRequest, ReadsEof, vars, clientVars, helperVars
  <2> HIDE DEF IInv, TypeOK
  <2> QED BY <1>0, <2>1
<1>4. CASE Exits \/ IdleExit \/ ReplyFails \/ Killed
  BY <1>4 DEF Exits, IdleExit, ReplyFails, Killed, Leaves
<1>5. CASE Starts \/ Acts
  BY <1>5 DEF Starts, Acts
<1>6. CASE Replies
  <2>1. up = <<>> /\ inbox \notin Calls
    BY <1>6 DEF Held, HeldOnce, Replies, Calls
  <2> QED BY <1>0, <1>6, <2>1, OneMessage DEF Replies, clientVars, Last, Waiting
<1> QED BY <1>1, <1>4, <1>5, <1>6, OverSteps DEF Helper

LEMMA ActingStep == ASSUME IInv, Acting, [Next]_vars PROVE Acting' \/ Acted' \/ ~alive'
<1> USE OverStays, NoneIsNoCall DEF Acting, IInv, TypeOK
<1>1. CASE Cut \/ UNCHANGED vars
  BY <1>1 DEF Cut, vars, clientVars, helperVars
<1>2. CASE ReadsRequest \/ ReadsEof
  BY <1>2 DEF ReadsRequest, ReadsEof, clientVars
<1>4. CASE Exits \/ IdleExit \/ ReplyFails \/ Killed
  BY <1>4 DEF Exits, IdleExit, ReplyFails, Killed, Leaves
<1>5. CASE Starts \/ Replies
  BY <1>5 DEF Starts, Replies
<1>6. CASE Acts
  BY <1>6 DEF Acts, clientVars, Acted
<1> QED BY <1>1, <1>2, <1>4, <1>5, <1>6, OverSteps DEF Helper

LEMMA MoreStep == ASSUME IInv, More, [Next]_vars PROVE More' \/ Last' \/ Acted' \/ Acting' \/ ~alive'
<1>1. ~alive' \/ (Over' /\ IInv')
  BY OverStays, StepHolds DEF More
<1> QED BY <1>1, Rungs DEF Last, Acted, Acting, More, Over, IInv, TypeOK

\* Where every file operation returns, no helper outlives its session: however
\* the session ended and whatever was under way, the helper leaves. (With a
\* call that never returns TLC shows the helper that stays.)
THEOREM HelpersGo == ASSUME Stuck = {} PROVE FairSpec /\ []Ready => HelperGone
<1> DEFINE Answer == Replies \/ ReplyFails
<1>1. IInv /\ Over => ~alive \/ Last \/ Acted \/ Acting \/ More
  BY Rungs
<1>2. IInv /\ Last /\ [Next]_vars => Last' \/ ~alive'
  BY LastStep
<1>3. IInv /\ Acted /\ [Next]_vars => Acted' \/ Last' \/ ~alive'
  BY ActedStep
<1>4. IInv /\ Acting /\ [Next]_vars => Acting' \/ Acted' \/ ~alive'
  BY ActingStep
<1>5. IInv /\ More /\ [Next]_vars => More' \/ Last' \/ Acted' \/ Acting' \/ ~alive'
  BY MoreStep
<1>6. (Last \/ More) /\ <<IdleExit>>_vars => ~alive'
  BY DEF IdleExit, Leaves
<1>7. Acting /\ <<Acts>>_vars => ~Acting'
  BY DEF Acting, Acts
<1>8. IInv /\ Acted /\ <<Replies \/ ReplyFails>>_vars => ~Acted'
  BY NoneIsNoCall DEF Acted, Replies, ReplyFails, Leaves, IInv, TypeOK
<1>9. Ready /\ (Last \/ More) => ENABLED <<IdleExit>>_vars
  BY DEF Ready, Last, More
<1>10. Ready /\ Acting => ENABLED <<Acts>>_vars
  BY DEF Ready, Acting
<1>11. Ready /\ Acted => ENABLED <<Replies \/ ReplyFails>>_vars
  BY DEF Ready, Acted
<1>12. Over <=> peer \in {"ended", "dead"}
  BY DEF Over
<1> QED
  BY <1>1, <1>2, <1>3, <1>4, <1>5, <1>6, <1>7, <1>8, <1>9, <1>10, <1>11, <1>12, Inductive, PTL
  DEF FairSpec, Fairness, Spec, HelperGone

-----------------------------------------------------------------------------
(* Every call returns: the mutex is released again and again, so its turn    *)
(* comes.                                                                    *)

\* Only the handshake is made before Serve, and Close waits for the workers.
Orderly ==
  /\ peer = "starting" => \A c \in Ops : call[c] = "new"
  /\ peer = "ended" => \A c \in Calls : call[c] \notin {"queued", "sent"}

LEMMA SpecOrderly == Spec => []Orderly
<1>1. Init => Orderly
  BY DEF Init, Orderly, Calls
<1>2. IInv /\ Orderly /\ [Next]_vars => Orderly'
  <2> SUFFICES ASSUME IInv, Orderly, [Next]_vars PROVE Orderly'
    OBVIOUS
  <2> USE DEF Orderly, IInv, TypeOK
  <2>1. ASSUME NEW c \in Calls, Client(c) PROVE Orderly'
    BY <2>1, HelperAssumption DEF Client, Moves, Running, Invoke, Refuse, Sends, SendFails, Receives,
      ReadFails, Calls
  <2>2. CASE HandshakeEnds
    BY <2>2, HelperAssumption DEF HandshakeEnds, Calls
  <2>3. CASE Close \/ Dies
    BY <2>3 DEF Close, Dies
  <2>4. CASE Cut \/ Helper \/ Killed \/ UNCHANGED vars
    <3>1. call' = call /\ peer' = peer
      BY <2>4 DEF Cut, Helper, Killed, vars, clientVars, ReadsRequest, ReadsEof, Exits, IdleExit, Starts,
        Acts, Replies, ReplyFails, Leaves
    <3> QED BY <3>1
  <2> QED BY <2>1, <2>2, <2>3, <2>4 DEF Next
<1> QED BY <1>1, <1>2, Inductive, PTL DEF Spec

\* The call that holds the mutex. Free: its read can end. Otherwise the helper
\* has the call before it or lost it (Idles), in its hands (Begun), or carried
\* out (Carried).
Holder(c)  == call[c] = "sent" /\ Running
Free(c)    == Holder(c) /\ (down # <<>> \/ ~alive \/ ~link)
Idles(c)   == Holder(c) /\ down = <<>> /\ alive /\ link /\ working = None
Begun(c)   == Holder(c) /\ down = <<>> /\ alive /\ link /\ working \in Calls \ done
Carried(c) == Holder(c) /\ down = <<>> /\ alive /\ link /\ working \in done

\* The call is back, or the process with all its callers is gone.
Released(c) == (call[c] \in Settled /\ ~Locked) \/ peer = "dead"

\* What can happen while a call holds the mutex.
Aside == Cut \/ Helper \/ Killed \/ UNCHANGED vars \/ \E d \in Calls : Invoke(d)

LEMMA HolderStep ==
  ASSUME IInv, Orderly, NEW c \in Calls, Holder(c), [Next]_vars
  PROVE  Released(c)' \/ (Holder(c)' /\ Aside)
<1> USE DEF Holder, Released, Aside
<1>0. call \in [Calls -> {"new", "queued", "sent"} \union Settled] /\ peer \in {"starting", "serving", "ended", "dead"}
  BY DEF IInv, TypeOK
<1>1. ASSUME NEW d \in Calls, Client(d) PROVE Released(c)' \/ (Holder(c)' /\ Invoke(d))
  BY <1>0, <1>1 DEF Client, Moves, Invoke, Running, Refuse, Sends, SendFails, Receives, ReadFails,
     Settled, Locked, IInv, OneOut, Out
<1>2. CASE HandshakeEnds
  BY <1>0, <1>2 DEF HandshakeEnds, Orderly, Calls
<1>3. CASE Close \/ Dies
  BY <1>0, <1>3 DEF Close, Dies
<1>4. CASE Cut \/ Helper \/ Killed \/ UNCHANGED vars
  <2>1. call' = call /\ peer' = peer
    BY <1>4 DEF Cut, Helper, Killed, vars, clientVars, ReadsRequest, ReadsEof, Exits, IdleExit, Starts,
      Acts, Replies, ReplyFails, Leaves
  <2> QED BY <1>4, <2>1 DEF Running
<1> QED BY <1>1, <1>2, <1>3, <1>4 DEF Next

LEMMA AsideStep ==
  ASSUME IInv, NEW c \in Calls, Holder(c), Aside
  PROVE  /\ ~alive => ~alive'
         /\ ~link => ~link'
         /\ down # <<>> => down' # <<>>
         /\ alive' => alive
         /\ link' => link
         /\ working = None => working' = None \/ working' \in Calls
         /\ alive' /\ working \in Calls => working' = working \/ (working \in done /\ (down' # <<>> \/ ~link))
         /\ alive' /\ working \in Calls => done' = done \/ done' = done \union {working}
<1> USE NoneIsNoCall DEF Aside, Helper
<1>0. working \in Calls \union {None} /\ down \in Seq(Calls) /\ done \subseteq Calls
  BY DEF IInv, TypeOK
<1>1. CASE (\E d \in Calls : Invoke(d)) \/ UNCHANGED vars
  BY <1>0, <1>1 DEF Invoke, vars, clientVars, helperVars
<1>2. CASE Cut
  BY <1>0, <1>2 DEF Cut, helperVars
<1>3. CASE ReadsRequest \/ ReadsEof
  BY <1>0, <1>3 DEF ReadsRequest, ReadsEof
<1>4. CASE Exits \/ IdleExit \/ ReplyFails \/ Killed
  BY <1>0, <1>4 DEF Exits, IdleExit, ReplyFails, Killed, Leaves
<1>5. CASE Starts \/ Acts
  BY <1>0, <1>5 DEF Starts, Acts
<1>6. CASE Replies
  BY <1>0, <1>6 DEF Replies
<1> QED BY <1>1, <1>2, <1>3, <1>4, <1>5, <1>6

LEMMA FreeStep ==
  ASSUME IInv, Orderly, NEW c \in Calls, Free(c), [Next]_vars
  PROVE  Released(c)' \/ Free(c)'
BY HolderStep, AsideStep DEF Free

LEMMA IdlesStep ==
  ASSUME IInv, Orderly, NEW c \in Calls, Idles(c), [Next]_vars
  PROVE  Released(c)' \/ Free(c)' \/ Idles(c)' \/ Begun(c)' \/ Carried(c)'
BY HolderStep, AsideStep DEF Free, Idles, Begun, Carried

LEMMA BegunStep ==
  ASSUME IInv, Orderly, NEW c \in Calls, Begun(c), [Next]_vars
  PROVE  Released(c)' \/ Free(c)' \/ Begun(c)' \/ Carried(c)'
BY HolderStep, AsideStep DEF Free, Idles, Begun, Carried

LEMMA CarriedStep ==
  ASSUME IInv, Orderly, NEW c \in Calls, Carried(c), [Next]_vars
  PROVE  Released(c)' \/ Free(c)' \/ Carried(c)'
<1>1. working \in Calls
  BY DEF Carried, IInv, TypeOK
<1> QED BY <1>1, HolderStep, AsideStep DEF Free, Carried

\* What holds from any moment on of a run that is fair.
Reliable ==
  /\ [][Next]_vars /\ []IInv /\ []Orderly /\ []Ready /\ []CallsReady /\ []MutexIsFair
  /\ WF_vars(IdleExit) /\ WF_vars(Acts) /\ WF_vars(Replies \/ ReplyFails)

\* The call that holds the mutex returns.
LEMMA MutexComesBack ==
  ASSUME Stuck = {}, NEW c \in Calls
  PROVE  Reliable => [](Holder(c) => <>Released(c))
<1>1. IInv /\ Orderly /\ Free(c) /\ [Next]_vars => Released(c)' \/ Free(c)'
  BY FreeStep
<1>2. IInv /\ Orderly /\ Idles(c) /\ [Next]_vars
      => Released(c)' \/ Free(c)' \/ Idles(c)' \/ Begun(c)' \/ Carried(c)'
  BY IdlesStep
<1>3. IInv /\ Orderly /\ Begun(c) /\ [Next]_vars => Released(c)' \/ Free(c)' \/ Begun(c)' \/ Carried(c)'
  BY BegunStep
<1>4. IInv /\ Orderly /\ Carried(c) /\ [Next]_vars => Released(c)' \/ Free(c)' \/ Carried(c)'
  BY CarriedStep
<1>5. IInv /\ Free(c) /\ <<Turn(c)>>_vars => ~Free(c)'
  BY DEF Free, Holder, IInv, TypeOK, Turn, Moves, Refuse, Sends, SendFails, Receives, ReadFails
<1>6. Idles(c) /\ <<IdleExit>>_vars => ~Idles(c)'
  BY DEF Idles, IdleExit, Leaves
<1>7. Begun(c) /\ <<Acts>>_vars => ~Begun(c)'
  BY DEF Begun, Acts
<1>8. IInv /\ Carried(c) /\ <<Replies \/ ReplyFails>>_vars => ~Carried(c)'
  BY NoneIsNoCall DEF Carried, Replies, ReplyFails, Leaves, IInv, TypeOK
<1>9. CallsReady /\ Free(c) => ENABLED <<Turn(c)>>_vars
  <2>1. CallsReady => ReadyCall(c)
    BY DEF CallsReady
  <2>2. ReadyCall(c) /\ Free(c) => ENABLED <<Turn(c)>>_vars
    BY DEF ReadyCall, Free, Holder
  <2> QED BY <2>1, <2>2
<1>10. Ready /\ Idles(c) => ENABLED <<IdleExit>>_vars
  BY DEF Ready, Idles
<1>11. Ready /\ Begun(c) => ENABLED <<Acts>>_vars
  BY DEF Ready, Begun
<1>12. Ready /\ Carried(c) => ENABLED <<Replies \/ ReplyFails>>_vars
  BY DEF Ready, Carried
<1>13. MutexIsFair => HandedOver(c)
  BY DEF MutexIsFair
<1>14. IInv /\ Holder(c) => Free(c) \/ Idles(c) \/ Begun(c) \/ Carried(c)
  BY DEF IInv, TypeOK, Free, Idles, Begun, Carried
<1> QED
  BY <1>1, <1>2, <1>3, <1>4, <1>5, <1>6, <1>7, <1>8, <1>9, <1>10, <1>11, <1>12, <1>13, <1>14, PTL
  DEF Reliable, HandedOver

\* Nobody, then, waits for a mutex that is never released.
LEMMA MutexIsFree ==
  ASSUME Stuck = {}
  PROVE  Reliable => []<>(~Locked \/ peer = "dead")
<1>1. ASSUME NEW c \in Calls
      PROVE  Reliable => (Holder(c) => <>(~Locked \/ peer = "dead"))
  <2>1. Reliable => [](Holder(c) => <>Released(c))
    BY MutexComesBack
  <2>2. Released(c) => ~Locked \/ peer = "dead"
    BY DEF Released
  <2> QED BY <2>1, <2>2, PTL
<1>2. Reliable => ((\E c \in Calls : Holder(c)) => <>(~Locked \/ peer = "dead"))
  BY <1>1
<1>3. IInv /\ Orderly /\ Locked => peer = "dead" \/ \E c \in Calls : Holder(c)
  BY DEF IInv, TypeOK, Orderly, Locked, Holder, Running
<1> QED BY <1>2, <1>3, PTL DEF Reliable

LEMMA SentReturns ==
  ASSUME Stuck = {}, NEW c \in Calls
  PROVE  Reliable => [](call[c] = "sent" => <>(call[c] \in Settled \/ peer = "dead"))
<1>1. IInv /\ Orderly /\ call[c] = "sent" => Holder(c) \/ peer = "dead"
  BY DEF IInv, TypeOK, Orderly, Holder, Running
<1>2. Released(c) => call[c] \in Settled \/ peer = "dead"
  BY DEF Released
<1> QED BY <1>1, <1>2, MutexComesBack, PTL DEF Reliable

LEMMA QueuedMoves ==
  ASSUME Stuck = {}, NEW c \in Calls
  PROVE  Reliable => [](call[c] = "queued" => <>(call[c] = "sent" \/ call[c] \in Settled \/ peer = "dead"))
<1>1. IInv /\ Orderly /\ call[c] = "queued" => Running \/ peer = "dead"
  BY DEF IInv, TypeOK, Orderly, Running
<1>2. IInv /\ call[c] = "queued" /\ <<Turn(c)>>_vars => (call[c] = "sent" \/ call[c] \in Settled)'
  BY DEF IInv, TypeOK, Turn, Moves, Refuse, Sends, SendFails, Receives, ReadFails, Settled
<1>3. IInv /\ call[c] = "queued" /\ [Next]_vars
      => (call[c] = "queued" \/ call[c] = "sent" \/ call[c] \in Settled)'
  <2> SUFFICES ASSUME IInv, call[c] = "queued", [Next]_vars
               PROVE  (call[c] = "queued" \/ call[c] = "sent" \/ call[c] \in Settled)'
    OBVIOUS
  <2>1. ASSUME NEW d \in Calls, Client(d)
        PROVE  (call[c] = "queued" \/ call[c] = "sent" \/ call[c] \in Settled)'
    BY <2>1 DEF IInv, TypeOK, Client, Invoke, Moves, Refuse, Sends, SendFails, Receives, ReadFails, Settled
  <2>2. CASE HandshakeEnds \/ Close \/ Dies \/ Cut \/ Helper \/ Killed \/ UNCHANGED vars
    <3>1. call' = call
      BY <2>2 DEF HandshakeEnds, Close, Dies, Cut, Helper, Killed, vars, clientVars, ReadsRequest,
        ReadsEof, Exits, IdleExit, Starts, Acts, Replies, ReplyFails, Leaves
    <3> QED BY <3>1
  <2> QED BY <2>1, <2>2 DEF Next
<1>4. CallsReady /\ Running /\ call[c] = "queued" /\ ~Locked => ENABLED <<Turn(c)>>_vars
  <2>1. CallsReady => ReadyCall(c)
    BY DEF CallsReady
  <2>2. ReadyCall(c) /\ Running /\ call[c] = "queued" /\ ~Locked => ENABLED <<Turn(c)>>_vars
    BY DEF ReadyCall
  <2> QED BY <2>1, <2>2
<1>5. MutexIsFair => HandedOver(c)
  BY DEF MutexIsFair
<1> QED BY <1>1, <1>2, <1>3, <1>4, <1>5, MutexIsFree, PTL DEF Reliable, HandedOver

\* Where every file operation returns, every call of the SFTP server does, with
\* an answer, an error or a refusal: no number of other callers, no lost
\* request and no broken connection keeps one waiting.
THEOREM CallersAreServed ==
  ASSUME Stuck = {}
  PROVE  FairSpec /\ []Ready /\ []CallsReady /\ []MutexIsFair => CallsReturn
<1>1. FairSpec /\ []Ready /\ []CallsReady /\ []MutexIsFair => Reliable
  BY Inductive, SpecOrderly, PTL DEF Reliable, FairSpec, Fairness, Spec
<1>2. ASSUME NEW c \in Calls
      PROVE  Reliable => (call[c] \in {"queued", "sent"} ~> call[c] \in Settled \/ peer = "dead")
  <2>1. call[c] \in {"queued", "sent"} <=> call[c] = "queued" \/ call[c] = "sent"
    OBVIOUS
  <2> QED BY <2>1, SentReturns, QueuedMoves, PTL
<1> QED BY <1>1, <1>2 DEF CallsReturn

-----------------------------------------------------------------------------
(***************************************************************************)
(* Before the session: the helper is put on the node (Staging).            *)
(***************************************************************************)

\* A transfer that has found no helper and has not put it in place.
AtWork(s) == pc[s] \in {"open", "cat", "chmod", "mv"}

OneAtATime == \A s, t \in Sessions : AtWork(s) /\ AtWork(t) => s = t

\* The parts of the type of the state that the argument needs.
StageTypeOK ==
  /\ pc \in [Sessions -> {"check", "open", "cat", "chmod", "mv", "staged", "failed"}]
  /\ fd \in [Sessions -> Sessions \union {NoFile}]
  /\ offset \in [Sessions -> 0..Blocks]
  /\ content \in [Sessions -> SUBSET Whole]
  /\ tmp \in Sessions \union {NoFile} /\ final \in Sessions \union {NoFile}

\* The temporary file, where there is one, is that of the transfer at work and
\* holds what it has copied; the final one is whole and nobody's any more.
StagesOwn ==
  /\ tmp # NoFile => pc[tmp] \in {"cat", "chmod", "mv"}
  /\ \A s \in Sessions :
       /\ pc[s] \in {"cat", "chmod", "mv"} => tmp = s
       /\ pc[s] \in {"check", "open"} => offset[s] = 0
       /\ pc[s] = "cat" => fd[s] = s /\ content[s] = 1..offset[s]
       /\ pc[s] \in {"chmod", "mv"} => content[s] = Whole
  /\ final # NoFile => pc[final] = "staged" /\ content[final] = Whole

\* "A concurrent transfer either sees no file or sees a complete one"
\* (launch.go:70-71) holds as long as no two transfers stage the helper at once:
\* where one name serves all of them, the rename is not enough.
THEOREM AloneIsWhole ==
  ASSUME Blocks \in Nat, NoFile \notin Sessions
  PROVE  StageSpec /\ []OneAtATime => []SeesNoneOrWhole
<1> DEFINE SInv == StageTypeOK /\ StagesOwn
<1>1. StageInit => SInv
  BY DEF StageInit, StageTypeOK, StagesOwn, Inodes
<1>2. SInv /\ OneAtATime /\ [StageNext]_stageVars => SInv'
  <2> SUFFICES ASSUME SInv, OneAtATime, [StageNext]_stageVars PROVE SInv'
    OBVIOUS
  <2> USE DEF StageTypeOK, StagesOwn, AtWork, Goes
  <2>1. ASSUME NEW s \in Sessions, Checks(s) PROVE SInv'
    BY <2>1 DEF Checks
  <2>2. ASSUME NEW s \in Sessions, Opens(s) PROVE SInv'
    <3>1. tmp = NoFile
      BY <2>2 DEF Opens, OneAtATime
    <3>2. /\ tmp' = s /\ fd' = [fd EXCEPT ![s] = s] /\ content' = [content EXCEPT ![s] = {}]
          /\ pc[s] = "open" /\ pc' = [pc EXCEPT ![s] = "cat"] /\ UNCHANGED <<final, offset>>
      BY <2>2, <3>1 DEF Opens
    <3>3. 1..0 = {}
      OBVIOUS
    <3>4. \A t \in Sessions : t # s => ~AtWork(t)
      BY <3>2 DEF OneAtATime
    <3> QED BY <3>2, <3>3, <3>4
  <2>3. ASSUME NEW s \in Sessions, Copies(s) PROVE SInv'
    <3>0. /\ pc[s] = "cat" /\ offset[s] < Blocks /\ offset[s] \in 0..Blocks /\ fd[s] = s
          /\ offset' = [offset EXCEPT ![s] = @ + 1]
          /\ content' = [content EXCEPT ![fd[s]] = @ \union {offset'[s]}]
          /\ UNCHANGED <<tmp, final, pc, fd>>
      BY <2>3 DEF Copies
    <3>5. offset'[s] = offset[s] + 1
      BY <3>0
    <3>1. /\ pc[s] = "cat" /\ offset[s] < Blocks /\ offset[s] \in Nat /\ fd[s] = s
          /\ offset' = [offset EXCEPT ![s] = offset[s] + 1]
          /\ content' = [content EXCEPT ![s] = content[s] \union {offset[s] + 1}]
          /\ UNCHANGED <<tmp, final, pc, fd>>
      BY <3>0, <3>5
    <3>2. content[s] \union {offset[s] + 1} = 1..(offset[s] + 1)
      BY <3>1
    <3>3. 1..(offset[s] + 1) \subseteq Whole /\ offset[s] + 1 \in 0..Blocks
      BY <3>1 DEF Whole
    <3>4. final # s
      BY <3>1
    <3> QED BY <3>1, <3>2, <3>3, <3>4
  <2>4. ASSUME NEW s \in Sessions, CatEnds(s) PROVE SInv'
    BY <2>4 DEF CatEnds, Whole
  <2>5. ASSUME NEW s \in Sessions, Chmods(s) PROVE SInv'
    BY <2>5 DEF Chmods
  <2>6. ASSUME NEW s \in Sessions, Renames(s) PROVE SInv'
    <3>1. /\ pc[s] = "mv" /\ tmp = s /\ tmp' = NoFile /\ final' = s /\ content[s] = Whole
          /\ pc' = [pc EXCEPT ![s] = "staged"] /\ UNCHANGED <<content, fd, offset>>
      BY <2>6 DEF Renames
    <3>2. \A t \in Sessions : t # s => ~AtWork(t)
      BY <3>1 DEF OneAtATime
    <3> QED BY <3>1, <3>2
  <2>7. CASE UNCHANGED stageVars
    BY <2>7 DEF stageVars
  <2> QED
    BY <2>1, <2>2, <2>3, <2>4, <2>5, <2>6, <2>7 DEF StageNext
<1>3. SInv => SeesNoneOrWhole
  BY DEF StagesOwn, SeesNoneOrWhole
<1> QED
  BY <1>1, <1>2, <1>3, PTL DEF StageSpec
=============================================================================
